---- MODULE Spec2Model ----
(***************************************************************************)
(* The transcription history store of voxdrop (src/voxdrop/history.py):    *)
(* TranscriptionRecord and HistoryManager, with the storage file it        *)
(* mirrors, and the two application threads that call it                   *)
(* (src/voxdrop/app.py).                                                   *)
(*                                                                         *)
(* Python values and JSON values are tagged records [t, v]; a string is a  *)
(* sequence of one-character strings.  json.dump and json.load are the     *)
(* conversions PyToJson and JsonToPy between the two vocabularies.         *)
(***************************************************************************)
EXTENDS Integers, Sequences, FiniteSets, TLC

VARIABLES
    store,        \* "ok": a HistoryManager exists; "raised": __init__ raised
    max_entries,  \* HistoryManager.max_entries
    history,      \* HistoryManager._history, a sequence of records
    file,         \* content of HistoryManager.storage_file
    nextId,       \* number of the next uuid4 drawn by TranscriptionRecord.create
    lastOp,       \* the call that returned last, and how it returned
    saveSeq,      \* ids returned by the save calls, in call order
    streak,       \* consecutive saves since the store was empty, -1 if not such a run
    dirty,        \* the last persist of this store failed
    everFailed,   \* some persist of this store failed since its construction
    pc,           \* position of each application thread inside its call
    loc,          \* locals of each application thread's call
    h0,           \* the list held when the concurrent calls started
    view,         \* the list object a caller holds from get_all
    probe,        \* the arguments and the result of one call of a function
                  \* without state: create, transcribe_files, time_ago
    app           \* the application: self.model and the transcription run

vars == <<store, max_entries, history, file, nextId, lastOp, saveSeq, streak,
          dirty, everFailed, pc, loc, h0, view, probe, app>>

------------------------------------------------------------------------------
(* Bounds of the model *)

MaxSaves == 3

MaxCap == 3

(* str[:50] and len(text) > 50 in TranscriptionRecord.create *)
PreviewLen == 50

------------------------------------------------------------------------------
(* Python values *)

PyStr(s) == [t |-> "str", v |-> s]

PyInt(n) == [t |-> "int", v |-> n]

PyList(q) == [t |-> "list", v |-> q]

PyDict(f) == [t |-> "dict", v |-> f]

PyNone == [t |-> "NoneType", v |-> 0]

(* JSON values, as written in the storage file *)

JString(s) == [t |-> "string", v |-> s]

JNumber(n) == [t |-> "number", v |-> n]

JArray(q) == [t |-> "array", v |-> q]

JObject(f) == [t |-> "object", v |-> f]

JNull == [t |-> "null", v |-> 0]

Min(a, b) == IF a < b THEN a ELSE b

Reverse(s) == [i \in 1..Len(s) |-> s[Len(s) + 1 - i]]

------------------------------------------------------------------------------
(* TranscriptionRecord *)

Fields == {"id", "text", "preview", "file_names", "file_count", "model", "timestamp"}

IsSpace(c) == c \in {" ", "\t", "\n", "\r"}

(* str.strip() *)
RECURSIVE LStrip(_)
LStrip(s) == IF s # <<>> /\ IsSpace(Head(s)) THEN LStrip(Tail(s)) ELSE s

Strip(s) == Reverse(LStrip(Reverse(LStrip(s))))

(* str.replace("\n", " ") *)
ReplaceNewlines(s) == [i \in 1..Len(s) |-> IF s[i] = "\n" THEN " " ELSE s[i]]

(* text[:50] *)
Prefix(s, n) == SubSeq(s, 1, Min(n, Len(s)))

Ellipsis == <<".", ".", ".">>

(* Fault: the ellipsis is appended from 50 characters on *)
PreviewOfFrom50(text) ==
    LET preview == Strip(ReplaceNewlines(Prefix(text, PreviewLen)))
    IN  IF Len(text) >= PreviewLen THEN preview \o Ellipsis ELSE preview

(* preview = text[:50].replace("\n", " ").strip(), "..." appended if
   len(text) > 50 *)
PreviewOf(text) ==
    LET preview == Strip(ReplaceNewlines(Prefix(text, PreviewLen)))
    IN  IF Len(text) > PreviewLen THEN preview \o Ellipsis ELSE preview

(* str(uuid.uuid4()): the n-th identifier drawn *)
Uuid4(n) == <<"u", ToString(n)>>

(* datetime.now().isoformat() for the wall-clock reading t *)
IsoFormat(t) == <<"T", ToString(t)>>

Create(text, file_names, model, uuid, now) ==
    [id         |-> PyStr(uuid),
     text       |-> PyStr(text),
     preview    |-> PyStr(PreviewOf(text)),
     file_names |-> PyList([i \in 1..Len(file_names) |-> PyStr(file_names[i])]),
     file_count |-> PyInt(Len(file_names)),
     model      |-> PyStr(model),
     timestamp  |-> PyStr(IsoFormat(now))]

(* Fault: the file names are left out of the mapping that is written *)
AsDictNoNames(record) ==
    PyDict([k \in Fields |-> IF k = "file_names" THEN PyList(<<>>) ELSE record[k]])

(* dataclasses.asdict(record) *)
AsDict(record) == PyDict([k \in Fields |-> record[k]])

(* The constructor call of _load on one element d of the loaded data: d must
   be a mapping with exactly the seven field names as keys *)
IsRecordDict(d) == d.t = "dict" /\ DOMAIN d.v = Fields

(* Fault: the model is not read from the mapping but set to the default *)
FromDictDefaultModel(d) ==
    [k \in Fields |-> IF k = "model" THEN PyStr(<<"b", "a", "s", "e">>) ELSE d.v[k]]

(* Fault: the preview is derived again from the text when a record is built *)
FromDictNewPreview(d) ==
    [k \in Fields |-> IF k = "preview" THEN PyStr(PreviewOf(d.v["text"].v)) ELSE d.v[k]]

FromDict(d) == [k \in Fields |-> d.v[k]]

------------------------------------------------------------------------------
(* json.dump / json.load *)

RECURSIVE PyToJson(_)
PyToJson(x) ==
    CASE x.t = "str"  -> JString(x.v)
      [] x.t = "int"  -> JNumber(x.v)
      [] x.t = "list" -> JArray([i \in 1..Len(x.v) |-> PyToJson(x.v[i])])
      [] x.t = "dict" -> JObject([k \in DOMAIN x.v |-> PyToJson(x.v[k])])
      [] OTHER        -> JNull

RECURSIVE JsonToPy(_)
JsonToPy(j) ==
    CASE j.t = "string" -> PyStr(j.v)
      [] j.t = "number" -> PyInt(j.v)
      [] j.t = "array"  -> PyList([i \in 1..Len(j.v) |-> JsonToPy(j.v[i])])
      [] j.t = "object" -> PyDict([k \in DOMAIN j.v |-> JsonToPy(j.v[k])])
      [] OTHER          -> PyNone

(* The number of characters json.dump(value, f, indent=2) writes *)
EscapedLen(c) == IF c \in {"\n", "\t", "\r", "\"", "\\"} THEN 2 ELSE 1

RECURSIVE NumberLen(_)
NumberLen(n) == IF n < 0 THEN 1 + NumberLen(0 - n)
                ELSE IF n < 10 THEN 1 ELSE 1 + NumberLen(n \div 10)

RECURSIVE SumOver(_, _)
SumOver(S, f) ==
    IF S = {} THEN 0
    ELSE LET x == CHOOSE y \in S : TRUE IN f[x] + SumOver(S \ {x}, f)

RECURSIVE JsonLen(_, _)
JsonLen(j, level) ==
    CASE j.t = "string" -> 2 + SumOver(1..Len(j.v), [i \in 1..Len(j.v) |-> EscapedLen(j.v[i])])
      [] j.t = "number" -> NumberLen(j.v)
      [] j.t = "array"  ->
            IF Len(j.v) = 0 THEN 2
            ELSE 1 + SumOver(1..Len(j.v),
                             [i \in 1..Len(j.v) |->
                                 1 + 2 * (level + 1) + JsonLen(j.v[i], level + 1)])
                   + (Len(j.v) - 1) + 1 + 2 * level + 1
      [] j.t = "object" ->
            IF DOMAIN j.v = {} THEN 2
            ELSE 1 + SumOver(DOMAIN j.v,
                             [k \in DOMAIN j.v |->
                                 1 + 2 * (level + 1) + 2 + Len(k) + 2
                                   + JsonLen(j.v[k], level + 1)])
                   + (Cardinality(DOMAIN j.v) - 1) + 1 + 2 * level + 1
      [] OTHER          -> 4

------------------------------------------------------------------------------
(* The storage file *)

FileMissing == [kind |-> "missing", doc |-> JNull]

(* bytes that the text codec cannot decode *)
FileBytes == [kind |-> "bytes", doc |-> JNull]

(* decodable text that is no JSON document: empty, truncated, "{ invalid json }" *)
FileText == [kind |-> "text", doc |-> JNull]

FileJson(doc) == [kind |-> "json", doc |-> doc]

(* Fault: the comprehension builds the list from the last element to the first *)
RecordsOfReversed(data) ==
    IF data.t = "list" /\ \A i \in 1..Len(data.v) : IsRecordDict(data.v[i])
    THEN [exc |-> "none",
          records |-> Reverse([i \in 1..Len(data.v) |-> FromDict(data.v[i])])]
    ELSE [exc |-> "TypeError", records |-> <<>>]

(* The list comprehension of _load over the loaded data *)
RecordsOf(data) ==
    CASE data.t = "list" ->
            IF \A i \in 1..Len(data.v) : IsRecordDict(data.v[i])
            THEN [exc |-> "none",
                  records |-> [i \in 1..Len(data.v) |-> FromDict(data.v[i])]]
            ELSE [exc |-> "TypeError", records |-> <<>>]
      [] data.t = "str" ->
            IF data.v = <<>>
            THEN [exc |-> "none", records |-> <<>>]
            ELSE [exc |-> "TypeError", records |-> <<>>]
      [] data.t = "dict" ->
            IF DOMAIN data.v = {}
            THEN [exc |-> "none", records |-> <<>>]
            ELSE [exc |-> "TypeError", records |-> <<>>]
      [] OTHER -> [exc |-> "TypeError", records |-> <<>>]

(* The exception raised inside the try block of _load, "none" if none *)
LoadException(f) ==
    CASE f.kind = "bytes" -> "UnicodeDecodeError"
      [] f.kind = "text"  -> "JSONDecodeError"
      [] f.kind = "json"  -> RecordsOf(JsonToPy(f.doc)).exc
      [] OTHER            -> "none"

(* Fault: the handler names the JSON error alone *)
CaughtJsonOnly == {"JSONDecodeError"}

(* except (json.JSONDecodeError, KeyError, TypeError) *)
Caught == {"JSONDecodeError", "KeyError", "TypeError"}

(* HistoryManager._load: the list it leaves in _history and the exception
   it lets through ("none" if it returns) *)
Load(f) ==
    LET exc == LoadException(f)
    IN  IF f.kind = "missing" THEN [exc |-> "none", history |-> <<>>]
        ELSE IF exc = "none"
             THEN [exc |-> "none", history |-> RecordsOf(JsonToPy(f.doc)).records]
        ELSE IF exc \in Caught THEN [exc |-> "none", history |-> <<>>]
        ELSE [exc |-> exc, history |-> <<>>]

(* The file after a handle opened with "w" writes its document at offset 0 and
   closes: the bytes another handle wrote beyond the document's end stay *)
WriteAtStart(f, doc) ==
    IF f.kind = "json" /\ JsonLen(f.doc, 0) > JsonLen(doc, 0)
    THEN FileText
    ELSE FileJson(doc)

(* What the disk does to one open-write-close of _save *)
DiskOutcomes == {"ok", "open_fails", "write_fails"}

(* Fault: only the newest record is written *)
SerializeNewest(h) == PyToJson(PyList([i \in 1..Min(Len(h), 1) |-> AsDict(h[i])]))

(* Fault: the records are written oldest first *)
SerializeOldestFirst(h) == PyToJson(PyList(Reverse([i \in 1..Len(h) |-> AsDict(h[i])])))

(* data = [asdict(record) for record in self._history]; json.dump(data, f) *)
Serialize(h) == PyToJson(PyList([i \in 1..Len(h) |-> AsDict(h[i])]))

(* Fault: an empty list is not written, the file keeps its old content *)
PersistSkipsEmpty(h, f, disk) ==
    CASE disk = "ok" /\ h # <<>> -> FileJson(Serialize(h))
      [] disk = "write_fails"    -> FileText
      [] OTHER                   -> f

(* HistoryManager._save: the file it leaves.  open(..., "w") truncates; a
   write that fails leaves a prefix of the document. *)
Persist(h, f, disk) ==
    CASE disk = "ok"          -> FileJson(Serialize(h))
      [] disk = "write_fails" -> FileText
      [] OTHER                -> f

------------------------------------------------------------------------------
(* HistoryManager: the list operations of save, get_by_id and delete *)

(* Fault: the record is appended instead of inserted at the front *)
InsertAtEnd(h, record) == Append(h, record)

(* self._history.insert(0, record) *)
Insert(h, record) == <<record>> \o h

(* Fault: the slice keeps the last max_entries records instead of the first *)
TrimKeepsTail(h, m) == IF Len(h) > m THEN SubSeq(h, Len(h) - m + 1, Len(h)) ELSE h

(* if len(self._history) > self.max_entries:
       self._history = self._history[: self.max_entries] *)
Trim(h, m) == IF Len(h) > m THEN SubSeq(h, 1, m) ELSE h

(* Fault: the scan keeps the last match instead of stopping at the first *)
IndexOfLast(h, rid) ==
    IF \E i \in 1..Len(h) : h[i].id = rid
    THEN CHOOSE i \in 1..Len(h) :
            h[i].id = rid /\ \A j \in (i + 1)..Len(h) : h[j].id # rid
    ELSE 0

(* The index at which the scan of get_by_id and delete stops, 0 if it runs out *)
IndexOf(h, rid) ==
    IF \E i \in 1..Len(h) : h[i].id = rid
    THEN CHOOSE i \in 1..Len(h) :
            h[i].id = rid /\ \A j \in 1..(i - 1) : h[j].id # rid
    ELSE 0

(* del self._history[i] *)
DeleteAt(h, i) == SubSeq(h, 1, i - 1) \o SubSeq(h, i + 1, Len(h))

(* HistoryManager.__len__: len(self._history) *)
__len__(h) == Len(h)

(* Fault: a store of one record counts as empty *)
BoolMoreThanOne(h) == Len(h) > 1

(* HistoryManager.__bool__: len(self._history) > 0 *)
__bool__(h) == Len(h) > 0

(* Fault: the list object itself is handed out *)
NoCopy(h) == [items |-> h, aliased |-> TRUE, edited |-> FALSE]

(* list.copy(): a new list object with the same elements; aliased says
   whether the object is the one _history is bound to, edited whether the
   caller has changed it *)
Copy(h) == [items |-> h, aliased |-> FALSE, edited |-> FALSE]

(* HistoryManager.get_all: self._history.copy() *)
GetAll(h) == Copy(h).items

(* Fault: only the newest record is compared *)
GetByIdNewestOnly(h, rid) == IF h # <<>> /\ h[1].id = rid THEN h[1] ELSE PyNone

(* HistoryManager.get_by_id: the first record with this id, None if none *)
GetById(h, rid) == IF IndexOf(h, rid) = 0 THEN PyNone ELSE h[IndexOf(h, rid)]

------------------------------------------------------------------------------
(* Inputs *)

ShortText == <<"h", "i">>

MultiLineText == <<" ", "a", "\n", "b">>

SaveInputs ==
    { [text |-> ShortText, file_names |-> << <<"a">> >>, model |-> <<"b", "a", "s", "e">>],
      [text |-> MultiLineText, file_names |-> << <<"b">>, <<"c">> >>, model |-> <<"t", "i", "n", "y">>] }

(* Wall-clock readings of datetime.now() *)
Times == {1}

(* A record written by an earlier run of the program *)
OldId(n) == <<"o", ToString(n)>>

OldRecord(n) == Create(ShortText, << <<"a">> >>, <<"b", "a", "s", "e">>, OldId(n), 0)

OldJson(n) == PyToJson(AsDict(OldRecord(n)))

WithoutField(j, k) == JObject([x \in DOMAIN j.v \ {k} |-> j.v[x]])

WithField(j, k, val) == JObject([x \in DOMAIN j.v \cup {k} |-> IF x = k THEN val ELSE j.v[x]])

(* Two records under one id, the first with another text *)
DuplicateIdFile ==
    FileJson(JArray(<<WithField(OldJson(1), "text", JString(MultiLineText)),
                      OldJson(2), OldJson(1)>>))

(* A record whose stored preview is not the one create derives from its text *)
StalePreviewFile ==
    FileJson(JArray(<<WithField(OldJson(1), "text", JString(MultiLineText))>>))

(* A record whose stored file_count is not the number of its file names *)
WrongCountFile ==
    FileJson(JArray(<<WithField(OldJson(1), "file_count", JNumber(5))>>))

(* Files that load without an exception in the try block *)
WellFormedFiles ==
    { FileJson(JArray(<<>>)),
      FileJson(JArray(<<OldJson(1)>>)),
      FileJson(JArray(<<OldJson(3), OldJson(2), OldJson(1)>>)),
      DuplicateIdFile,
      WrongCountFile }

(* Decodable text that is not JSON, JSON that is no array of record objects,
   and arrays with an object that lacks or adds a field *)
MalformedFiles ==
    { FileText,
      FileJson(JNull),
      FileJson(JNumber(5)),
      FileJson(JString(<<"a">>)),
      FileJson(JObject([a |-> JNumber(1)])),
      FileJson(JArray(<<JNumber(1)>>)),
      FileJson(JArray(<<OldJson(1), JArray(<<>>)>>)),
      FileJson(JArray(<<OldJson(1), WithoutField(OldJson(2), "model")>>)),
      FileJson(JArray(<<WithField(OldJson(1), "extra", JNumber(1))>>)) }

(* Arrays of objects that have the seven keys, one with values of the wrong type *)
MistypedFiles ==
    { FileJson(JArray(<<WithField(OldJson(1), "file_count", JString(<<"x">>))>>)),
      FileJson(JArray(<<OldJson(2),
                        WithField(WithField(OldJson(1), "file_names", JNumber(5)),
                                  "id", JNumber(7))>>)),
      FileJson(JArray(<<WithField(OldJson(1), "timestamp", JNull)>>)) }

InitFiles ==
    {FileMissing, FileBytes} \cup WellFormedFiles \cup MalformedFiles \cup MistypedFiles

UnknownId == <<"n", "o">>

(* The ids asked for: those held, and one that no record has *)
QueryIds == {history[i].id : i \in 1..Len(history)} \cup {PyStr(UnknownId)}

------------------------------------------------------------------------------
(* The application threads, idle while the calls are made one after another *)

Threads == {"worker", "main"}

Idle == [t \in Threads |-> "idle"]

NoLocals == [t \in Threads |-> [op |-> "none", rid |-> PyNone, record |-> PyNone,
                                 data |-> <<>>, tmp |-> <<>>, idx |-> 0,
                                 at |-> "none"]]

seqOnly == <<pc, loc, h0, view, probe, app>>

(* No list taken, no text probed *)
NoView == [items |-> <<>>, aliased |-> FALSE, edited |-> TRUE]

NoProbe == [text |-> <<>>, preview |-> <<>>, done |-> FALSE]

MaxRuns == 3

MaxAlerts == 2

(* The worker threads the handlers may create *)
Runs == 1..MaxRuns

(* The application as __init__ leaves it: self.model = "base", no run made.
   passed: the model the run gave to the engine; engine: how transcribe_files
   ended; text: what it returned; saves: the save calls of the run; first:
   nextId when the run started.
   transcribing: self._is_transcribing; run[w]: where worker thread w stands;
   outcome[w]: how its try block ended; handler: the handler the main thread
   is in, past its test of the flag; check: the test of the flag made last,
   with the number of workers then between start and end; alerts: the
   "Already transcribing" alerts shown.
   pending_notification, pending_history_refresh: the slots the timer
   callback empties; menu: the ids of the records the history menu lists;
   timer: where the main thread stands in _process_pending_updates; note: the
   notification it has read; posted: the notifications posted so far;
   shown: the notifications shown so far; clears: the clear calls
   made; reqAt, menuAt: the mutations that were complete at the last refresh
   request and at the get_all of the last rebuild *)
NoApp == [model |-> <<"b", "a", "s", "e">>, passed |-> <<>>, engine |-> "none",
          text |-> <<>>, saves |-> 0, first |-> 1,
          transcribing |-> FALSE,
          run |-> [w \in Runs |-> "unstarted"],
          outcome |-> [w \in Runs |-> "none"],
          handler |-> "idle",
          check |-> [running |-> 0, refused |-> FALSE],
          alerts |-> 0,
          pending_notification |-> PyNone,
          pending_history_refresh |-> FALSE,
          menu |-> <<>>,
          timer |-> "idle",
          note |-> PyNone,
          posted |-> 0,
          shown |-> 0,
          clears |-> 0,
          reqAt |-> 0,
          menuAt |-> 0]

------------------------------------------------------------------------------
(* The calls, each returning before the next starts *)

(* Fault: the I/O error is swallowed *)
Swallows(disk) == FALSE

(* _save has no handler around open and json.dump, and save, delete and clear
   have none around _save: an I/O error of the disk reaches the caller *)
Propagates(disk) == disk \notin {"ok", "none"}

(* disk: what the disk did to the call's persist, "none" if it made none;
   ret: the value a read call returned *)
Returned(op, rid, disk, found) ==
    [op |-> op, id |-> rid, raised |-> Propagates(disk), disk |-> disk,
     found |-> found, wasDirty |-> dirty, ret |-> PyNone]

(* What _ensure_storage_dir's mkdir(parents=True, exist_ok=True) does: it can
   fail only where the directory, and so the file, does not exist.  The call
   has no handler, in _ensure_storage_dir or in __init__ *)
MkdirOutcomes == {"ok", "mkdir_fails"}

(* Fault: __init__ writes the list it loaded back to the file *)
ConstructWrites(m, mk) ==
    LET loaded == IF mk = "ok" THEN Load(file) ELSE [exc |-> "OSError", history |-> <<>>]
    IN  /\ mk = "mkdir_fails" => file.kind = "missing"
        /\ max_entries' = m
        /\ store' = IF loaded.exc = "none" THEN "ok" ELSE "raised"
        /\ history' = loaded.history
        /\ file' = IF loaded.exc = "none" THEN Persist(loaded.history, file, "ok") ELSE file
        /\ lastOp' = [op |-> "init", id |-> PyNone, raised |-> loaded.exc # "none",
                      disk |-> IF mk = "ok" THEN "none" ELSE mk,
                      found |-> FALSE, wasDirty |-> FALSE,
                      ret |-> PyNone]
        /\ streak' = IF loaded.exc = "none" /\ loaded.history = <<>> THEN 0 ELSE -1
        /\ dirty' = FALSE
        /\ everFailed' = FALSE
        /\ UNCHANGED <<nextId, saveSeq>>
        /\ UNCHANGED seqOnly

(* HistoryManager.__init__(max_entries = m) on the storage location *)
Construct(m, mk) ==
    LET loaded == IF mk = "ok" THEN Load(file) ELSE [exc |-> "OSError", history |-> <<>>]
    IN  /\ mk = "mkdir_fails" => file.kind = "missing"
        /\ max_entries' = m
        /\ store' = IF loaded.exc = "none" THEN "ok" ELSE "raised"
        /\ history' = loaded.history
        /\ lastOp' = [op |-> "init", id |-> PyNone, raised |-> loaded.exc # "none",
                      disk |-> IF mk = "ok" THEN "none" ELSE mk,
                      found |-> FALSE, wasDirty |-> FALSE,
                 ret |-> PyNone]
        /\ streak' = IF loaded.exc = "none" /\ loaded.history = <<>> THEN 0 ELSE -1
        /\ dirty' = FALSE
        /\ everFailed' = FALSE
        /\ UNCHANGED <<file, nextId, saveSeq>>
        /\ UNCHANGED seqOnly

(* HistoryManager.save(text, file_names, model) *)
Save(in, now, disk) ==
    LET record == Create(in.text, in.file_names, in.model, Uuid4(nextId), now)
        kept   == Trim(Insert(history, record), max_entries)
    IN  /\ store = "ok"
        /\ nextId <= MaxSaves
        /\ history' = kept
        /\ file' = Persist(kept, file, disk)
        /\ nextId' = nextId + 1
        /\ saveSeq' = Append(saveSeq, record.id)
        /\ lastOp' = Returned("save", record.id, disk, FALSE)
        /\ streak' = IF streak >= 0 THEN streak + 1 ELSE -1
        /\ dirty' = (disk # "ok")
        /\ everFailed' = (everFailed \/ disk # "ok")
        /\ UNCHANGED <<store, max_entries>>
        /\ UNCHANGED seqOnly

(* Fault: _save is called after the scan whether or not a record was removed *)
DeleteAlwaysSaves(rid, disk) ==
    LET i == IndexOf(history, rid)
        h == IF i = 0 THEN history ELSE DeleteAt(history, i)
    IN  /\ store = "ok"
        /\ history' = h
        /\ file' = Persist(h, file, disk)
        /\ lastOp' = Returned("delete", rid, disk, i # 0)
        /\ dirty' = (disk # "ok")
        /\ everFailed' = (everFailed \/ disk # "ok")
        /\ streak' = IF history' = <<>> THEN 0 ELSE -1
        /\ UNCHANGED <<store, max_entries, nextId, saveSeq>>
        /\ UNCHANGED seqOnly

(* HistoryManager.delete(record_id) *)
Delete(rid, disk) ==
    LET i == IndexOf(history, rid)
    IN  /\ store = "ok"
        /\ IF i = 0
           THEN /\ lastOp' = Returned("delete", rid, "none", FALSE)
                /\ UNCHANGED <<history, file, dirty, everFailed>>
           ELSE /\ history' = DeleteAt(history, i)
                /\ file' = Persist(DeleteAt(history, i), file, disk)
                /\ lastOp' = Returned("delete", rid, disk, TRUE)
                /\ dirty' = (disk # "ok")
                /\ everFailed' = (everFailed \/ disk # "ok")
        /\ streak' = IF history' = <<>> THEN 0 ELSE -1
        /\ UNCHANGED <<store, max_entries, nextId, saveSeq>>
        /\ UNCHANGED seqOnly

(* HistoryManager.clear() *)
Clear(disk) ==
    /\ store = "ok"
    /\ history' = <<>>
    /\ file' = Persist(<<>>, file, disk)
    /\ lastOp' = Returned("clear", PyNone, disk, FALSE)
    /\ streak' = 0
    /\ dirty' = (disk # "ok")
    /\ everFailed' = (everFailed \/ disk # "ok")
    /\ UNCHANGED <<store, max_entries, nextId, saveSeq>>
    /\ UNCHANGED seqOnly

Caps == 1..MaxCap

(* The state HistoryManager.__init__ leaves, for the files a run starts on *)
Started(files) ==
    /\ file \in files
    /\ max_entries \in Caps
    /\ store = IF Load(file).exc = "none" THEN "ok" ELSE "raised"
    /\ history = Load(file).history
    /\ nextId = 1
    /\ lastOp = [op |-> "init", id |-> PyNone, raised |-> Load(file).exc # "none",
                 disk |-> "none", found |-> FALSE, wasDirty |-> FALSE,
                 ret |-> PyNone]
    /\ saveSeq = <<>>
    /\ streak = IF Load(file).exc = "none" /\ Load(file).history = <<>> THEN 0 ELSE -1
    /\ dirty = FALSE
    /\ everFailed = FALSE
    /\ pc = Idle
    /\ loc = NoLocals
    /\ h0 = <<>>
    /\ view = NoView
    /\ app = NoApp

(* A first run, or a run on the file an earlier run left *)
Init == Started({FileMissing, FileJson(JArray(<<OldJson(1)>>))}) /\ probe = NoProbe

Next ==
    \/ \E m \in Caps, mk \in MkdirOutcomes : Construct(m, mk)
    \/ \E in \in SaveInputs, now \in Times, disk \in DiskOutcomes : Save(in, now, disk)
    \/ \E rid \in QueryIds, disk \in DiskOutcomes : Delete(rid, disk)
    \/ \E disk \in DiskOutcomes : Clear(disk)

Spec == Init /\ [][Next]_vars

(* Construction on any content of the storage file, and the calls that remove *)
LoadInit == Started(InitFiles) /\ probe = NoProbe

LoadNext ==
    \/ \E m \in Caps, mk \in MkdirOutcomes : Construct(m, mk)
    \/ \E rid \in QueryIds, disk \in DiskOutcomes : Delete(rid, disk)
    \/ \E disk \in DiskOutcomes : Clear(disk)

LoadSpec == LoadInit /\ [][LoadNext]_vars

------------------------------------------------------------------------------
(* save on the worker thread (VoxDropApp._transcribe_files) while the main
   thread runs clear (VoxDropApp._clear_history) or delete.  HistoryManager
   takes no lock: a thread may be preempted between any two statements. *)

(* The read calls, and what happens between calls of one store: the caller
   changes the list it got from get_all, another program writes the file *)

Reads == {"get_all", "get_by_id", "len", "bool"}

readFrame == <<store, max_entries, history, file, nextId, saveSeq, streak,
               dirty, everFailed, pc, loc, h0, probe, app>>

(* HistoryManager.get_all() *)
GetAllCall ==
    /\ store = "ok"
    /\ view' = Copy(history)
    /\ lastOp' = [Returned("get_all", PyNone, "none", FALSE) EXCEPT !.ret = [t |-> "list", v |-> GetAll(history)]]
    /\ UNCHANGED readFrame

(* The ids the save calls of this store returned *)
SavedIds == {saveSeq[k] : k \in 1..Len(saveSeq)}

(* Ids a caller looks up: of a held record, of a record it saved, of none *)
LookupIds == QueryIds \cup SavedIds

(* HistoryManager.get_by_id(record_id) *)
GetByIdCall(rid) ==
    /\ store = "ok"
    /\ LET r == GetById(history, rid)
       IN  lastOp' = [Returned("get_by_id", rid, "none", r # PyNone)
                         EXCEPT !.ret = IF r = PyNone THEN PyNone
                                        ELSE [t |-> "TranscriptionRecord", v |-> r]]
    /\ UNCHANGED view
    /\ UNCHANGED readFrame

(* len(history) *)
LenCall ==
    /\ store = "ok"
    /\ lastOp' = [Returned("len", PyNone, "none", FALSE) EXCEPT !.ret = PyInt(__len__(history))]
    /\ UNCHANGED view
    /\ UNCHANGED readFrame

(* bool(history) *)
BoolCall ==
    /\ store = "ok"
    /\ lastOp' = [Returned("bool", PyNone, "none", FALSE) EXCEPT !.ret = [t |-> "bool", v |-> __bool__(history)]]
    /\ UNCHANGED view
    /\ UNCHANGED readFrame

(* A record the store never held *)
ForeignRecord == OldRecord(9)

ListEdits == {"append", "remove", "reverse"}

(* The caller appends to, removes from or reverses the list get_all gave it,
   once for each list it takes; a list object that is the store's own changes
   the store with it *)
CallerMutates(k) ==
    LET items == CASE k = "append" -> Append(view.items, ForeignRecord)
                   [] k = "remove" -> Tail(view.items)
                   [] OTHER        -> Reverse(view.items)
    IN  /\ store = "ok"
        /\ ~view.edited
        /\ k = "remove" => view.items # <<>>
        /\ k = "reverse" => Len(view.items) >= 2
        /\ view' = [items |-> items, aliased |-> view.aliased, edited |-> TRUE]
        /\ history' = IF view.aliased THEN items ELSE history
        /\ lastOp' = Returned("caller", PyNone, "none", FALSE)
        /\ UNCHANGED <<store, max_entries, file, nextId, saveSeq, streak,
                       dirty, everFailed, pc, loc, h0, probe, app>>

(* What another program leaves in the storage file *)
ExternalFile == FileJson(JArray(<<OldJson(7)>>))

(* The file is replaced behind the store's back *)
ExternalWrite ==
    /\ file # ExternalFile
    /\ file' = ExternalFile
    /\ lastOp' = Returned("external", PyNone, "none", FALSE)
    /\ UNCHANGED <<store, max_entries, history, nextId, saveSeq, streak,
                   dirty, everFailed, pc, loc, h0, view, probe, app>>

(* One store from its construction on: every call of its interface *)
ReadInit == Started({FileMissing}) /\ probe = NoProbe

ReadInputs == {in \in SaveInputs : in.text = ShortText}

ReadDisk == {"ok", "write_fails"}

ReadNext ==
    \/ \E in \in ReadInputs, now \in Times, disk \in ReadDisk : Save(in, now, disk)
    \/ \E rid \in QueryIds, disk \in ReadDisk : Delete(rid, disk)
    \/ \E disk \in ReadDisk : Clear(disk)
    \/ GetAllCall
    \/ \E rid \in LookupIds : GetByIdCall(rid)
    \/ LenCall
    \/ BoolCall
    \/ \E k \in ListEdits : CallerMutates(k)
    \/ ExternalWrite

ReadSpec == ReadInit /\ [][ReadNext]_vars

------------------------------------------------------------------------------
(* TranscriptionRecord.create as a function of the text *)

ProbeSlack == 3

Rep(c, n) == [i \in 1..n |-> c]

(* Nothing, or one whitespace character *)
Edges == {<<>>, <<" ">>, <<"\n">>, <<"\t">>}

(* Texts around the length of the preview window: an edge, a run of one
   letter, an edge or a newline between letters, and a few more letters *)
ProbeLens == (0..ProbeSlack) \cup ((PreviewLen - ProbeSlack)..(PreviewLen + 1))

ProbeTexts ==
    { pre \o Rep("x", k) \o mid \o Rep("y", j) :
        pre \in Edges, k \in ProbeLens,
        mid \in Edges \cup {<<"x", "\n", "x">>}, j \in 0..ProbeSlack }

PreviewInit ==
    /\ Started({FileMissing, StalePreviewFile})
    /\ max_entries = 2
    /\ probe \in {[text |-> t, preview |-> <<>>, done |-> FALSE] : t \in ProbeTexts}

(* TranscriptionRecord.create(text, file_names, model), with any file names,
   model, uuid and clock reading: the preview it derives *)
CreateCall ==
    /\ ~probe.done
    /\ \E in \in SaveInputs, n \in 1..2, now \in 0..1 :
          probe' = [text |-> probe.text,
                    preview |-> Create(probe.text, in.file_names, in.model,
                                       Uuid4(n), now).preview.v,
                    done |-> TRUE]
    /\ UNCHANGED <<store, max_entries, history, file, nextId, lastOp, saveSeq,
                   streak, dirty, everFailed, pc, loc, h0, view, app>>

(* The probed text is saved, once, and the store then queried, reloaded,
   emptied *)
ProbeInput == [text |-> probe.text, file_names |-> << <<"a">> >>, model |-> <<"b", "a", "s", "e">>]

PreviewNext ==
    \/ CreateCall
    \/ probe.done /\ nextId = 1 /\ \E now \in Times : Save(ProbeInput, now, "ok")
    \/ probe.done /\ Construct(max_entries, "ok")
    \/ probe.done /\ \E rid \in QueryIds : Delete(rid, "ok")
    \/ probe.done /\ Clear("ok")
    \/ probe.done /\ GetAllCall
    \/ probe.done /\ \E rid \in QueryIds : GetByIdCall(rid)

PreviewSpec == PreviewInit /\ [][PreviewNext]_vars

------------------------------------------------------------------------------
(* The two threads of the application inside their calls *)

seqGhosts == <<store, max_entries, lastOp, streak, dirty, everFailed, h0, view, probe, app>>

Goto(t, label) == pc' = [pc EXCEPT ![t] = label]

(* The calls the main thread may make while the worker saves *)
MainCalls(h) ==
    {[op |-> "clear", rid |-> PyNone], [op |-> "get_all", rid |-> PyNone],
     [op |-> "len", rid |-> PyNone]}
      \cup {[op |-> "delete", rid |-> rid] :
               rid \in {h[i].id : i \in 1..Len(h)} \cup {PyStr(UnknownId)}}

ConcInit ==
    /\ file \in {FileMissing, FileJson(JArray(<<OldJson(1)>>)),
                 FileJson(JArray(<<OldJson(3), OldJson(2), OldJson(1)>>))}
    /\ max_entries \in Caps
    /\ store = "ok"
    /\ history = Load(file).history
    /\ h0 = history
    /\ nextId = 1
    /\ lastOp = [op |-> "init", id |-> PyNone, raised |-> FALSE,
                 disk |-> "none", found |-> FALSE, wasDirty |-> FALSE,
                 ret |-> PyNone]
    /\ saveSeq = <<>>
    /\ streak = -1
    /\ dirty = FALSE
    /\ everFailed = FALSE
    /\ pc = [t \in Threads |-> "call"]
    /\ view = NoView
    /\ app = NoApp
    /\ probe = NoProbe
    /\ \E in \in SaveInputs, now \in Times, call \in MainCalls(history) :
          loc = [t \in Threads |->
                   IF t = "worker"
                   THEN [NoLocals[t] EXCEPT !.op = "save",
                            !.record = Create(in.text, in.file_names, in.model, Uuid4(1), now)]
                   ELSE [NoLocals[t] EXCEPT !.op = call.op, !.rid = call.rid]]

(* save: record = TranscriptionRecord.create(...); self._history.insert(0, record) *)
SaveInsert(t) ==
    /\ pc[t] = "call" /\ loc[t].op = "save"
    /\ history' = Insert(history, loc[t].record)
    /\ nextId' = nextId + 1
    /\ saveSeq' = Append(saveSeq, loc[t].record.id)
    /\ Goto(t, "trim_test")
    /\ UNCHANGED <<file, loc>>
    /\ UNCHANGED seqGhosts

(* save: if len(self._history) > self.max_entries *)
TrimTest(t) ==
    /\ pc[t] = "trim_test"
    /\ Goto(t, IF Len(history) > max_entries THEN "trim_slice" ELSE "snapshot")
    /\ UNCHANGED <<history, file, nextId, saveSeq, loc>>
    /\ UNCHANGED seqGhosts

(* save: the right-hand side self._history[: self.max_entries] *)
TrimSlice(t) ==
    /\ pc[t] = "trim_slice"
    /\ loc' = [loc EXCEPT ![t].tmp = SubSeq(history, 1, Min(max_entries, Len(history)))]
    /\ Goto(t, "trim_store")
    /\ UNCHANGED <<history, file, nextId, saveSeq>>
    /\ UNCHANGED seqGhosts

(* save: the assignment self._history = ... *)
TrimStore(t) ==
    /\ pc[t] = "trim_store"
    /\ history' = loc[t].tmp
    /\ Goto(t, "snapshot")
    /\ UNCHANGED <<file, nextId, saveSeq, loc>>
    /\ UNCHANGED seqGhosts

(* clear: self._history = [] *)
ClearAssign(t) ==
    /\ pc[t] = "call" /\ loc[t].op = "clear"
    /\ history' = <<>>
    /\ Goto(t, "snapshot")
    /\ UNCHANGED <<file, nextId, saveSeq, loc>>
    /\ UNCHANGED seqGhosts

(* delete: the scan, up to the matching record or the end of the list *)
DeleteScan(t) ==
    /\ pc[t] = "call" /\ loc[t].op = "delete"
    /\ loc' = [loc EXCEPT ![t].idx = IndexOf(history, loc[t].rid)]
    /\ Goto(t, IF IndexOf(history, loc[t].rid) = 0 THEN "done" ELSE "del")
    /\ UNCHANGED <<history, file, nextId, saveSeq>>
    /\ UNCHANGED seqGhosts

(* delete: del self._history[i], an IndexError if the list got shorter *)
DeleteDel(t) ==
    /\ pc[t] = "del"
    /\ IF loc[t].idx <= Len(history)
       THEN /\ history' = DeleteAt(history, loc[t].idx)
            /\ Goto(t, "snapshot")
       ELSE /\ Goto(t, "raised")
            /\ UNCHANGED history
    /\ UNCHANGED <<file, nextId, saveSeq, loc>>
    /\ UNCHANGED seqGhosts

(* get_all: self._history.copy(), or len(self._history): one read of the
   list the attribute is bound to at that moment; at is where the worker
   stood *)
ReadList(t) ==
    /\ pc[t] = "call" /\ loc[t].op \in {"get_all", "len"}
    /\ loc' = [loc EXCEPT ![t].data = IF loc[t].op = "get_all" THEN GetAll(history) ELSE <<>>,
                          ![t].idx = IF loc[t].op = "len" THEN __len__(history) ELSE 0,
                          ![t].at = pc["worker"]]
    /\ Goto(t, "done")
    /\ UNCHANGED <<history, file, nextId, saveSeq>>
    /\ UNCHANGED seqGhosts

(* _save: data = [asdict(record) for record in self._history] *)
Snapshot(t) ==
    /\ pc[t] = "snapshot"
    /\ loc' = [loc EXCEPT ![t].data = history]
    /\ Goto(t, "open")
    /\ UNCHANGED <<history, file, nextId, saveSeq>>
    /\ UNCHANGED seqGhosts

(* _save: open(self.storage_file, "w") creates or truncates the file *)
Open(t) ==
    /\ pc[t] = "open"
    /\ file' = FileText
    /\ Goto(t, "write")
    /\ UNCHANGED <<history, nextId, saveSeq, loc>>
    /\ UNCHANGED seqGhosts

(* _save: json.dump(data, f, indent=2) and the close that flushes it *)
Write(t) ==
    /\ pc[t] = "write"
    /\ file' = WriteAtStart(file, Serialize(loc[t].data))
    /\ Goto(t, "done")
    /\ UNCHANGED <<history, nextId, saveSeq, loc>>
    /\ UNCHANGED seqGhosts

ConcNext ==
    \E t \in Threads :
        \/ SaveInsert(t)
        \/ TrimTest(t)
        \/ TrimSlice(t)
        \/ TrimStore(t)
        \/ ClearAssign(t)
        \/ DeleteScan(t)
        \/ DeleteDel(t)
        \/ ReadList(t)
        \/ Snapshot(t)
        \/ Open(t)
        \/ Write(t)

ConcSpec == ConcInit /\ [][ConcNext]_vars

------------------------------------------------------------------------------
(* Vocabulary of the properties *)

Ids(h) == [i \in 1..Len(h) |-> h[i].id]

LastN(s, n) == SubSeq(s, Len(s) - n + 1, Len(s))

(* The position of the save call that returned the record with this id, 0 if
   no save call of this run returned it (a record of an earlier run) *)
SavePos(rid) ==
    IF \E k \in 1..Len(saveSeq) : saveSeq[k] = rid
    THEN CHOOSE k \in 1..Len(saveSeq) : saveSeq[k] = rid
    ELSE 0

(* A call that changes the list has returned (normally or by raising) *)
MutatingCallReturned ==
    /\ store = "ok"
    /\ \/ lastOp.op \in {"save", "clear"}
       \/ lastOp.op = "delete" /\ lastOp.found

Constructed == lastOp.op = "init"

(* The step is a call of save, of delete, of clear *)
SaveStep == nextId' = nextId + 1

FailedPersistStep == lastOp'.op \in {"save", "delete", "clear"} /\ lastOp'.disk \notin {"ok", "none"}

------------------------------------------------------------------------------
(* C1: Bounded size.  Whenever save, a delete that removed a record, or clear
   has returned, the store holds at most max_entries records, also when the
   store was constructed on an existing file. *)
C1_BoundedSize == MutatingCallReturned => Len(history) <= max_entries

(* C2: Recency ordering.  The held records that save calls returned are listed
   newest save first and ahead of every record of an earlier run; the record a
   save returned is at index 0 when the save returns; n <= max_entries saves
   into an empty store leave exactly those n records, last saved first (A, B,
   C gives [C, B, A]). *)
C2_RecencyOrder ==
    store = "ok" =>
        /\ \A i, j \in 1..Len(GetAll(history)) :
              i < j =>
                 /\ SavePos(history[i].id) > 0 /\ SavePos(history[j].id) > 0
                       => SavePos(history[i].id) > SavePos(history[j].id)
                 /\ ~(SavePos(history[i].id) = 0 /\ SavePos(history[j].id) > 0)
        /\ lastOp.op = "save" =>
              /\ Len(GetAll(history)) >= 1
              /\ GetAll(history)[1].id = lastOp.id
        /\ (streak >= 0 /\ streak <= max_entries) =>
              Ids(GetAll(history)) = Reverse(LastN(saveSeq, streak))

C2_Witness ==
    /\ store = "ok" /\ streak = 3 /\ max_entries >= 3
    /\ Ids(history) = <<PyStr(Uuid4(3)), PyStr(Uuid4(2)), PyStr(Uuid4(1))>>

(* C3: Eviction.  A save on a store holding max_entries records drops exactly
   the record at the tail and keeps the others in order behind the new one;
   after n consecutive saves into an empty store the store holds the
   min(n, max_entries) most recently saved records and no other. *)
C3_Eviction ==
    /\ [][(SaveStep /\ Len(history) = max_entries) =>
             /\ Len(history') = max_entries
             /\ history'[1].id = lastOp'.id
             /\ \A i \in 1..(max_entries - 1) : history'[i + 1] = history[i]]_vars
    /\ [](streak >= 0 =>
             /\ Len(history) = Min(streak, max_entries)
             /\ Ids(history) = Reverse(LastN(saveSeq, Min(streak, max_entries))))

C3_Witness ==
    /\ store = "ok" /\ streak = 3 /\ max_entries = 2
    /\ Ids(history) = <<PyStr(Uuid4(3)), PyStr(Uuid4(2))>>

(* C4: Round-trip persistence.  While no call of the store has failed, a store
   constructed on the same storage location holds the same records in the
   same order with every field identical. *)
C4_RoundTrip ==
    (store = "ok" /\ ~everFailed) =>
        /\ Load(file).exc = "none"
        /\ GetAll(Load(file).history) = GetAll(history)

C4_Witness ==
    /\ store = "ok" /\ ~everFailed /\ lastOp.op = "delete" /\ lastOp.found
    /\ Len(history) >= 1 /\ history[1].model = PyStr(<<"t", "i", "n", "y">>)

(* C5: Serialized mutations.  When the concurrent calls have ended, none has
   raised, and the list held and the file are those that the two calls leave
   when one runs after the other, in one of the two orders; the file is the
   list held. *)
SerialCall(h, t) ==
    CASE loc[t].op = "save"  -> Trim(Insert(h, loc[t].record), max_entries)
      [] loc[t].op = "clear" -> <<>>
      [] OTHER -> IF IndexOf(h, loc[t].rid) = 0 THEN h
                  ELSE DeleteAt(h, IndexOf(h, loc[t].rid))

SerialResults ==
    { SerialCall(SerialCall(h0, "worker"), "main"),
      SerialCall(SerialCall(h0, "main"), "worker") }

CallsEnded == \A t \in Threads : pc[t] \in {"done", "raised"}

C5_Serialized ==
    CallsEnded =>
        /\ \A t \in Threads : pc[t] = "done"
        /\ history \in SerialResults
        /\ file = FileJson(Serialize(history))

(* C6: Corruption recovery.  Constructing a store on a file that is no JSON
   text, is JSON of the wrong shape, or has a record object without a required
   field, returns an empty store and raises nothing. *)
C6_CorruptionRecovery ==
    (Constructed /\ file \in MalformedFiles) =>
        /\ store = "ok"
        /\ ~lastOp.raised
        /\ Len(history) = 0

C6_Witness ==
    /\ Constructed /\ store = "ok"
    /\ file = FileJson(JArray(<<OldJson(1), WithoutField(OldJson(2), "model")>>))

(* C7: Fail-closed deserialization.  Constructing a store on a file with a
   record whose field has the wrong type yields an empty store, and no held
   record ever has a field of the wrong type. *)
IsStr(x) == x.t = "str"

WellTyped(r) ==
    /\ IsStr(r.id) /\ IsStr(r.text) /\ IsStr(r.preview)
    /\ IsStr(r.model) /\ IsStr(r.timestamp)
    /\ r.file_count.t = "int"
    /\ r.file_names.t = "list"
    /\ \A i \in 1..Len(r.file_names.v) : IsStr(r.file_names.v[i])

C7_FailClosed ==
    /\ (Constructed /\ file \in MistypedFiles) => (store = "ok" /\ history = <<>>)
    /\ \A i \in 1..Len(history) : WellTyped(history[i])

(* C8: Construction never raises, whatever the storage file holds. *)
C8_ConstructionNeverRaises ==
    (Constructed /\ file.kind # "missing") => (store = "ok" /\ ~lastOp.raised)

(* C9: A failed persist is surfaced and not rolled back.  When the persist of
   save, delete or clear fails, the call raises, the list keeps the mutation
   and the file is left as the one failed write left it. *)
C9_WriteFailureSurfaced ==
    [][FailedPersistStep =>
          /\ lastOp'.raised
          /\ lastOp'.op = "save" =>
                /\ history' # <<>>
                /\ history'[1].id = lastOp'.id
                /\ Tail(history') = SubSeq(history, 1, Len(history') - 1)
          /\ lastOp'.op = "delete" =>
                /\ Len(history') = Len(history) - 1
                /\ history' = DeleteAt(history, IndexOf(history, lastOp'.id))
          /\ lastOp'.op = "clear" => history' = <<>>
          /\ lastOp'.disk = "open_fails" => file' = file
          /\ lastOp'.disk = "write_fails" => file' = FileText]_vars

C9_Witness ==
    /\ lastOp.op = "save" /\ lastOp.raised /\ lastOp.disk = "write_fails"
    /\ Len(history) >= 2 /\ file = FileText

(* C10: Recovery after a failed persist.  A save whose persist succeeds leaves
   the whole list in the file, also after calls whose persist failed: a store
   constructed then loads exactly the list held. *)
C10_Recovery ==
    (store = "ok" /\ lastOp.op = "save" /\ ~lastOp.raised) =>
        /\ file = FileJson(Serialize(history))
        /\ Load(file) = [exc |-> "none", history |-> history]

C10_Witness ==
    /\ store = "ok" /\ lastOp.op = "save" /\ ~lastOp.raised /\ lastOp.wasDirty
    /\ Len(history) >= 2 /\ max_entries >= 2


(* C11: Atomic-in-effect rewrite.  Whatever happens to the persist of a call
   made while the file mirrors the list, a store constructed afterwards loads
   the list from before the call or the list after it. *)
MutatingStep == lastOp'.op \in {"save", "delete", "clear"} /\ lastOp'.disk # "none"

C11_AtomicRewrite ==
    [][(MutatingStep /\ Load(file) = [exc |-> "none", history |-> history]) =>
          /\ Load(file').exc = "none"
          /\ Load(file').history \in {history, history'}]_vars


(* C12: Delete of a held id.  delete(id) for an id held removes the first
   record with that id and no other, keeps the others in their order, and,
   the disk working, returns true with the file holding the resulting list. *)
C12_DeleteHeld ==
    [][(store = "ok" /\ lastOp'.op = "delete"
          /\ \E i \in 1..Len(history) : history[i].id = lastOp'.id) =>
          /\ lastOp'.found
          /\ Len(history') = Len(history) - 1
          /\ \E i \in 1..Len(history) :
                /\ history[i].id = lastOp'.id
                /\ \A j \in 1..(i - 1) : history[j].id # lastOp'.id /\ history'[j] = history[j]
                /\ \A j \in i..(Len(history) - 1) : history'[j] = history[j + 1]
          /\ lastOp'.disk = "ok" =>
                /\ ~lastOp'.raised
                /\ file' = FileJson(Serialize(history'))]_vars

C12_Witness ==
    /\ store = "ok" /\ lastOp.op = "delete" /\ lastOp.found /\ ~lastOp.raised
    /\ lastOp.id = PyStr(OldId(1))
    /\ history = <<OldRecord(2), OldRecord(1)>>


(* C13: Delete of an unknown id.  delete(id) for an id no held record has
   returns false, raises nothing whatever the disk would do to a write, and
   leaves the list and the file as they were. *)
C13_DeleteUnknown ==
    [][(store = "ok" /\ lastOp'.op = "delete"
          /\ \A i \in 1..Len(history) : history[i].id # lastOp'.id) =>
          /\ ~lastOp'.found
          /\ ~lastOp'.raised
          /\ lastOp'.disk = "none"
          /\ history' = history
          /\ file' = file]_vars

C13_Witness ==
    /\ store = "ok" /\ lastOp.op = "delete" /\ ~lastOp.found /\ ~lastOp.raised
    /\ lastOp.id = PyStr(UnknownId)
    /\ Len(history) >= 1 /\ dirty


(* C14: Clear.  After clear() returns, the store has size 0, is falsy and the
   file holds the empty array; a clear() that follows a returned clear()
   does not raise on a working disk and leaves list and file as the first
   one left them. *)
ClearReturned == store = "ok" /\ lastOp.op = "clear" /\ ~lastOp.raised

C14_Clear ==
    [][/\ ClearReturned' =>
             /\ __len__(history') = 0
             /\ ~__bool__(history')
             /\ file' = FileJson(JArray(<<>>))
       /\ (ClearReturned /\ lastOp'.op = "clear" /\ lastOp'.disk = "ok") =>
             /\ ~lastOp'.raised
             /\ history' = history
             /\ file' = file]_vars

C14_Witness ==
    /\ ClearReturned /\ lastOp.disk = "ok"
    /\ history = <<>> /\ file = FileJson(JArray(<<>>))
    /\ nextId > 1 /\ everFailed


(* C17: Load semantics.  Construction where no storage file exists yields an
   empty store; construction on a well-formed file yields the stored records
   in the stored order, none reordered, dropped or added, whatever
   max_entries is. *)
WellFormedFile(f) ==
    /\ f.kind = "json"
    /\ f.doc.t = "array"
    /\ \A i \in 1..Len(f.doc.v) :
          /\ f.doc.v[i].t = "object"
          /\ DOMAIN f.doc.v[i].v = Fields
          /\ WellTyped(FromDict(JsonToPy(f.doc.v[i])))

C17_LoadSemantics ==
    /\ (Constructed /\ file = FileMissing /\ lastOp.disk = "none") =>
          (store = "ok" /\ ~lastOp.raised /\ history = <<>>)
    /\ (Constructed /\ WellFormedFile(file)) =>
          /\ store = "ok" /\ ~lastOp.raised
          /\ Len(history) = Len(file.doc.v)
          /\ \A i \in 1..Len(history) : PyToJson(AsDict(history[i])) = file.doc.v[i]

C17_Witness ==
    /\ Constructed /\ WellFormedFile(file)
    /\ max_entries = 1
    /\ history = <<OldRecord(3), OldRecord(2), OldRecord(1)>>


(* C19: Directory creation failure is non-fatal.  When the directory of the
   storage location cannot be created, construction still returns a store,
   and the store is empty. *)
C19_MkdirFailureNonFatal ==
    (Constructed /\ lastOp.disk = "mkdir_fails") =>
        (store = "ok" /\ ~lastOp.raised /\ history = <<>>)


(* C15: Lookup lifetime.  get_by_id(id) returns the held record with that id
   if there is one and None otherwise, raises nothing and changes nothing.
   The record a save returned is held, unaltered, from that save on until a
   later save evicts it, a delete names it or a clear is made, and is never
   held again by this store afterwards. *)
Holds(h, rid) == \E i \in 1..Len(h) : h[i].id = rid

Held(h, rid) == h[CHOOSE i \in 1..Len(h) : h[i].id = rid]

C15_LookupLifetime ==
    [][/\ lastOp'.op = "get_by_id" =>
             /\ ~lastOp'.raised
             /\ history' = history /\ file' = file /\ view' = view
             /\ IF Holds(history, lastOp'.id)
                THEN lastOp'.ret = [t |-> "TranscriptionRecord", v |-> Held(history, lastOp'.id)]
                ELSE lastOp'.ret = PyNone
       /\ lastOp'.op = "save" =>
             /\ Holds(history', lastOp'.id)
             /\ ~Holds(history, lastOp'.id)
       /\ \A rid \in SavedIds :
             /\ (Holds(history, rid) /\ Holds(history', rid)) =>
                   Held(history', rid) = Held(history, rid)
             /\ (Holds(history, rid) /\ ~Holds(history', rid)) =>
                   \/ lastOp'.op = "save" /\ Len(history) >= max_entries
                   \/ lastOp'.op = "delete" /\ lastOp'.id = rid
                   \/ lastOp'.op = "clear"
             /\ ~Holds(history, rid) => ~Holds(history', rid)]_vars

(* The first saved record was found by a lookup, was then evicted by the
   third save of a store of two, and a lookup of it now returns None *)
C15_Witness ==
    /\ lastOp.op = "get_by_id" /\ lastOp.ret = PyNone /\ ~lastOp.found
    /\ Len(saveSeq) = 3 /\ lastOp.id = saveSeq[1]
    /\ max_entries = 2 /\ Len(history) = 2
    /\ Ids(history) = <<saveSeq[3], saveSeq[2]>>


(* C16: get_all is a defensive, memory-only read.  What the caller does to a
   list it got from get_all, and what another program writes into the
   storage file, changes nothing in the store; get_all, len and get_by_id
   return what the list in memory holds, whatever the file holds. *)
C16_DefensiveRead ==
    [][/\ lastOp'.op \in {"caller", "external"} => history' = history
       /\ lastOp'.op = "caller" => view'.items # view.items
       /\ lastOp'.op = "external" => file' # file
       /\ lastOp'.op = "get_all" =>
             /\ lastOp'.ret = [t |-> "list", v |-> history]
             /\ view'.items = history
             /\ history' = history
       /\ lastOp'.op = "len" => (lastOp'.ret = PyInt(Len(history)) /\ history' = history)
       /\ lastOp'.op = "get_by_id" =>
             /\ lastOp'.found = Holds(history, lastOp'.id)
             /\ history' = history]_vars

(* After an edit of the returned list and an outside write of the file, len
   still answers from the list in memory *)
C16_Witness ==
    /\ lastOp.op = "len" /\ lastOp.ret = PyInt(2) /\ Len(history) = 2
    /\ view.edited /\ Len(view.items) = 3
    /\ file = ExternalFile /\ Load(file).history # history

(* C18: Whole-file mirror.  Each save, each delete that finds its record and
   each clear makes one rewrite of the file, and one that succeeds leaves in
   the file the array of the records in memory, in their order; get_all,
   get_by_id, len, bool and a delete of an unknown id write nothing. *)
C18_WholeFileMirror ==
    [][/\ (lastOp'.op \in {"save", "clear"} \/ (lastOp'.op = "delete" /\ lastOp'.found)) =>
             /\ lastOp'.disk \in DiskOutcomes
             /\ lastOp'.disk = "ok" =>
                   /\ file'.kind = "json" /\ file'.doc.t = "array"
                   /\ Len(file'.doc.v) = Len(history')
                   /\ \A i \in 1..Len(history') :
                         file'.doc.v[i] = PyToJson(AsDict(history'[i]))
       /\ (lastOp'.op \in Reads \/ (lastOp'.op = "delete" /\ ~lastOp'.found)) =>
             /\ lastOp'.disk = "none"
             /\ file' = file]_vars

(* A delete rewrote the file while the caller held an edited list; two
   records remain in memory and in the file *)
C18_Witness ==
    /\ lastOp.op = "delete" /\ lastOp.found /\ lastOp.disk = "ok"
    /\ Len(history) = 2
    /\ file = FileJson(Serialize(history))
    /\ view.edited


(* C20: Preview truncation rule, as stated: for text of at most 50 characters
   the preview is the text with newlines replaced by spaces and surrounding
   whitespace trimmed, without ellipsis; for longer text it is the first 50
   transformed characters followed by the ellipsis and has length exactly 53. *)
Transformed(s) == Strip(ReplaceNewlines(s))

C20_PreviewExactly53 ==
    probe.done =>
        /\ Len(probe.text) <= PreviewLen => probe.preview = Transformed(probe.text)
        /\ Len(probe.text) > PreviewLen =>
              /\ probe.preview = Transformed(SubSeq(probe.text, 1, PreviewLen)) \o Ellipsis
              /\ Len(probe.preview) = PreviewLen + 3

(* C20 amended: for longer text the preview is the first 50 characters,
   newlines replaced and surrounding whitespace trimmed, followed by the
   ellipsis; its length is at most 53, and is 53 exactly when neither the
   first nor the 50th character of the text is whitespace. *)
C20_PreviewAtMost53 ==
    probe.done =>
        /\ Len(probe.text) <= PreviewLen =>
              /\ probe.preview = Transformed(probe.text)
              /\ Len(probe.preview) <= Len(probe.text)
        /\ Len(probe.text) > PreviewLen =>
              /\ probe.preview = Transformed(SubSeq(probe.text, 1, PreviewLen)) \o Ellipsis
              /\ Len(probe.preview) <= PreviewLen + 3
              /\ Len(probe.preview) = PreviewLen + 3 <=>
                    (~IsSpace(probe.text[1]) /\ ~IsSpace(probe.text[PreviewLen]))
        /\ \A i \in 1..Len(probe.preview) : probe.preview[i] # "\n"
        /\ probe.preview # <<>> =>
              (~IsSpace(probe.preview[1]) /\ ~IsSpace(probe.preview[Len(probe.preview)]))

(* A text of 54 characters whose 50th is a tab: the preview has 52 *)
C20_Witness ==
    /\ probe.done
    /\ probe.text = Rep("x", PreviewLen - 1) \o <<"\t">> \o Rep("y", 3)
    /\ probe.preview = Rep("x", PreviewLen - 1) \o Ellipsis
    /\ Len(probe.preview) = PreviewLen + 2


(* C21: Preview bound.  The preview create computes has at most 53
   characters and is the same for one text whatever the other arguments are;
   save stores it as computed, and no call of the store changes the preview
   of a record it holds, returns or writes: a reload takes it from the file
   as stored. *)
C21_PreviewBound ==
    [][/\ probe'.done =>
             /\ Len(probe'.preview) <= PreviewLen + 3
             /\ probe'.preview = PreviewOf(probe'.text)
       /\ lastOp'.op = "save" => history'[1].preview = PyStr(probe.preview)
       /\ \A i \in 1..Len(history), j \in 1..Len(history') :
             history[i].id = history'[j].id => history'[j].preview = history[i].preview
       /\ (lastOp'.op = "init" /\ WellFormedFile(file)) =>
             \A i \in 1..Len(history') :
                 PyToJson(history'[i].preview) = file.doc.v[i].v["preview"]
       /\ (lastOp'.op \in {"save", "delete", "clear"} /\ lastOp'.disk = "ok") =>
             \A i \in 1..Len(history') :
                 file'.doc.v[i].v["preview"] = PyToJson(history'[i].preview)
       /\ lastOp'.op = "get_all" =>
             \A i \in 1..Len(history) : lastOp'.ret.v[i].preview = history[i].preview
       /\ (lastOp'.op = "get_by_id" /\ lastOp'.found) =>
             lastOp'.ret.v.preview = Held(history, lastOp'.id).preview]_vars

(* A text of more than 50 characters was saved with its 53-character preview
   beside a loaded record whose preview is not the one of its text; both came
   back unchanged from a reload *)
C21_Witness ==
    /\ lastOp.op = "init" /\ nextId = 2 /\ Len(history) = 2
    /\ Len(probe.text) > PreviewLen
    /\ Len(probe.preview) = PreviewLen + 3
    /\ history[1].preview = PyStr(probe.preview)
    /\ history[2].preview.v # PreviewOf(history[2].text.v)


(* C22: file_count consistency.  Every record a store holds, those loaded
   from the storage file at construction included, has file_count equal to
   the number of its file_names. *)
C22_FileCountConsistent ==
    store = "ok" =>
        \A i \in 1..Len(history) :
            WellTyped(history[i]) =>
                history[i].file_count.v = Len(history[i].file_names.v)


(* C23: Id uniqueness.  In every state of a store, after construction from
   any file it accepts and after any calls, the held records have pairwise
   distinct ids. *)
C23_IdsDistinct ==
    store = "ok" =>
        \A i, j \in 1..Len(history) : i # j => history[i].id # history[j].id


(* C24: Records are immutable.  From the save that created it until it is
   removed, a record has, in the list and in the storage file, the fields
   the save gave it: the store inserts and removes whole records and writes
   and reloads them field for field. *)
InSeq(r, s) == \E j \in 1..Len(s) : s[j] = r

AllIn(s, t) == \A i \in 1..Len(s) : InSeq(s[i], t)

C24_RecordsImmutable ==
    [][/\ lastOp'.op = "save" =>
             /\ lastOp'.id \notin SavedIds
             /\ history'[1].id = lastOp'.id
             /\ AllIn(Tail(history'), history)
       /\ lastOp'.op \in {"delete", "clear"} => AllIn(history', history)
       /\ lastOp'.op = "init" => AllIn(history', Load(file).history)
       /\ file' # file => AllIn(Load(file').history, history')]_vars

(* Two saved records, written, reloaded by a new construction, both as saved *)
C24_Witness ==
    /\ lastOp.op = "init" /\ store = "ok"
    /\ Len(saveSeq) = 2
    /\ Ids(history) = <<saveSeq[2], saveSeq[1]>>
    /\ history[1].text.v = MultiLineText
    /\ file = FileJson(Serialize(history))


------------------------------------------------------------------------------
(* VoxDropApp: a transcription run on the worker thread, the model menu on
   the main thread *)

(* The entries of the model menu *)
Models == {<<"b", "a", "s", "e">>, <<"t", "i", "n", "y">>}

(* What transcribe_files returns *)
EngineTexts == {ShortText, MultiLineText}

RunNames == << <<"a">> >>

appFrame == <<store, max_entries, lastOp, streak, dirty, everFailed, view, probe>>

(* Fault: the handler is left through the save as well *)
AlwaysSaves(outcome) == "save_args"

(* try: text = transcribe_files(...); self.history_manager.save(...)
   except Exception: the save is skipped *)
AfterEngine(outcome) == IF outcome = "returned" THEN "save_args" ELSE "except"

AppInit ==
    /\ Started({FileMissing, FileJson(JArray(<<OldJson(1)>>))})
    /\ probe = NoProbe

(* select_files: threading.Thread(target=self._transcribe_files, ...).start() *)
RunStart ==
    /\ store = "ok"
    /\ pc["worker"] \in {"idle", "finished"}
    /\ nextId <= MaxSaves
    /\ pc' = [pc EXCEPT !["worker"] = "engine_args"]
    /\ loc' = [loc EXCEPT !["worker"] = NoLocals["worker"]]
    /\ h0' = history
    /\ app' = [app EXCEPT !.passed = <<>>, !.engine = "none", !.text = <<>>,
                          !.saves = 0, !.first = nextId]
    /\ UNCHANGED <<history, file, nextId, saveSeq>>
    /\ UNCHANGED appFrame

(* _transcribe_files: the arguments of transcribe_files(paths, model=self.model, ...) *)
EngineArgs ==
    /\ pc["worker"] = "engine_args"
    /\ app' = [app EXCEPT !.passed = app.model]
    /\ pc' = [pc EXCEPT !["worker"] = "engine"]
    /\ UNCHANGED <<history, file, nextId, saveSeq, loc, h0>>
    /\ UNCHANGED appFrame

(* transcribe_files returns its text or raises *)
EngineEnds(outcome, text) ==
    /\ pc["worker"] = "engine"
    /\ outcome = "raised" => text = <<>>
    /\ app' = [app EXCEPT !.engine = outcome, !.text = text]
    /\ pc' = [pc EXCEPT !["worker"] = AfterEngine(outcome)]
    /\ UNCHANGED <<history, file, nextId, saveSeq, loc, h0>>
    /\ UNCHANGED appFrame

(* self.history_manager.save(text=text, file_names=file_names, model=self.model):
   the arguments, and create inside save *)
SaveArgs(now) ==
    /\ pc["worker"] = "save_args"
    /\ loc' = [loc EXCEPT !["worker"] =
                  [NoLocals["worker"] EXCEPT !.op = "save",
                      !.record = Create(app.text, RunNames, app.model, Uuid4(nextId), now)]]
    /\ app' = [app EXCEPT !.saves = app.saves + 1]
    /\ pc' = [pc EXCEPT !["worker"] = "call"]
    /\ UNCHANGED <<history, file, nextId, saveSeq, h0>>
    /\ UNCHANGED appFrame

(* except Exception as e: status and notification; finally: the run is over *)
RunEnds ==
    /\ pc["worker"] \in {"except", "done"}
    /\ pc' = [pc EXCEPT !["worker"] = "finished"]
    /\ UNCHANGED <<history, file, nextId, saveSeq, loc, h0, app>>
    /\ UNCHANGED appFrame

(* _make_model_callback: self.model = model_name, on the main thread *)
SelectModel(m) ==
    /\ app.model # m
    /\ app' = [app EXCEPT !.model = m]
    /\ UNCHANGED <<history, file, nextId, saveSeq, pc, loc, h0>>
    /\ UNCHANGED appFrame

AppNext ==
    \/ RunStart
    \/ EngineArgs
    \/ \E outcome \in {"returned", "raised"}, text \in EngineTexts \cup {<<>>} :
          EngineEnds(outcome, text)
    \/ \E now \in Times : SaveArgs(now)
    \/ SaveInsert("worker")
    \/ TrimTest("worker")
    \/ TrimSlice("worker")
    \/ TrimStore("worker")
    \/ Snapshot("worker")
    \/ Open("worker")
    \/ Write("worker")
    \/ RunEnds
    \/ \E m \in Models : SelectModel(m)

AppSpec == AppInit /\ [][AppNext]_vars

(* C25: The model recorded is the model that produced the text.  The record
   a run saves carries the model that the run passed to the engine, and the
   engine's text, also when another model is selected during the run. *)
C25_RecordedModel ==
    loc["worker"].op = "save" =>
        /\ loc["worker"].record.text = PyStr(app.text)
        /\ loc["worker"].record.model = PyStr(app.passed)


(* C26: History records successful transcriptions only.  A run calls save
   once if the engine returned a text and not at all if it raised; a run
   whose engine raised adds no record and leaves the list as it was. *)
C26_SaveOnSuccessOnly ==
    /\ app.saves <= 1
    /\ (pc["worker"] # "idle" /\ app.engine # "returned") =>
          (app.saves = 0 /\ history = h0 /\ nextId = app.first)
    /\ pc["worker"] = "finished" =>
          IF app.engine = "returned"
          THEN /\ app.saves = 1
               /\ nextId = app.first + 1
               /\ history # <<>>
               /\ history[1] = loc["worker"].record
               /\ history[1].text = PyStr(app.text)
               /\ AllIn(Tail(history), h0)
          ELSE /\ app.engine = "raised"
               /\ loc["worker"].op = "none"

(* A run whose engine raised ended after a run that saved: the list is the
   one the first run left *)
C26_Witness ==
    /\ pc["worker"] = "finished" /\ app.engine = "raised" /\ app.saves = 0
    /\ nextId = 2 /\ app.first = 2
    /\ Len(history) = 2 /\ history = h0
    /\ history[1].id = saveSeq[1]


------------------------------------------------------------------------------
(* transcriber.py: is_supported_format and transcribe_files *)

MaxFiles == 3

(* SUPPORTED_FORMATS *)
SUPPORTED_FORMATS ==
    { <<".", "o", "p", "u", "s">>, <<".", "m", "p", "3">>,
      <<".", "m", "4", "a">>, <<".", "w", "a", "v">> }

(* str.lower() on the letters the file names use *)
LowerChar(c) ==
    CASE c = "O" -> "o" [] c = "P" -> "p" [] c = "U" -> "u" [] c = "S" -> "s"
      [] c = "M" -> "m" [] c = "W" -> "w" [] c = "A" -> "a" [] c = "V" -> "v"
      [] OTHER -> c

Lower(s) == [i \in 1..Len(s) |-> LowerChar(s[i])]

(* PurePath.suffix of a file name: from the last dot on, empty if there is
   no dot or the last dot starts or ends the name *)
Suffix(name) ==
    LET dots == {i \in 1..Len(name) : name[i] = "."}
        last == IF dots = {} THEN 0 ELSE CHOOSE i \in dots : \A j \in dots : j <= i
    IN  IF 1 < last /\ last < Len(name) THEN SubSeq(name, last, Len(name)) ELSE <<>>

(* Fault: the suffix is compared as written *)
IsSupportedAsWritten(file_path) == Suffix(file_path) \in SUPPORTED_FORMATS

(* is_supported_format: file_path.suffix.lower() in SUPPORTED_FORMATS *)
is_supported_format(file_path) == Lower(Suffix(file_path)) \in SUPPORTED_FORMATS

(* Fault: no file is filtered out *)
KeepsAll(paths) == paths

(* valid_files = [f for f in file_paths if is_supported_format(f)] *)
RECURSIVE ValidFiles(_)
ValidFiles(paths) ==
    IF paths = <<>> THEN <<>>
    ELSE IF is_supported_format(Head(paths))
         THEN <<Head(paths)>> \o ValidFiles(Tail(paths))
         ELSE ValidFiles(Tail(paths))

(* result["text"] of model_instance.transcribe for a file: the engine's
   text for it, with the whitespace Whisper puts around it *)
Heard(name) == <<" ", name[1], " ", name[1], "\n">>

(* "\n\n".join(transcriptions) *)
RECURSIVE Join(_)
Join(texts) ==
    IF texts = <<>> THEN <<>>
    ELSE IF Len(texts) = 1 THEN texts[1]
    ELSE texts[1] \o <<"\n", "\n">> \o Join(Tail(texts))

(* transcribe_files(file_paths, model, language, on_progress) *)
transcribe_files(file_paths) ==
    LET valid_files == ValidFiles(file_paths)
        transcriptions == [i \in 1..Len(valid_files) |-> Strip(Heard(valid_files[i]))]
    IN  IF file_paths = <<>> THEN [raised |-> "none", text |-> <<>>]
        ELSE IF valid_files = <<>> THEN [raised |-> "ValueError", text |-> <<>>]
        ELSE IF Len(transcriptions) = 1 THEN [raised |-> "none", text |-> transcriptions[1]]
        ELSE [raised |-> "none", text |-> Join(transcriptions)]

(* File names with a supported extension in either case, with another
   extension, with none, and with a dot that starts or ends the name *)
UsableNames ==
    { <<"a", ".", "o", "p", "u", "s">>, <<"b", ".", "M", "P", "3">>,
      <<"e", ".", "t", ".", "W", "a", "v">> }

UnusableNames ==
    { <<"c", ".", "t", "x", "t">>, <<"d">>, <<".", "o", "p", "u", "s">>,
      <<"g", ".", "m", "4", "a", ".">> }

PathLists ==
    UNION {[1..n -> UsableNames \cup UnusableNames] : n \in 0..MaxFiles}

EngineInit ==
    /\ Started({FileMissing})
    /\ max_entries = 1
    /\ probe \in {[file_paths |-> p, result |-> [raised |-> "none", text |-> <<>>],
                   done |-> FALSE] : p \in PathLists}

TranscribeCall ==
    /\ ~probe.done
    /\ probe' = [file_paths |-> probe.file_paths,
                 result |-> transcribe_files(probe.file_paths),
                 done |-> TRUE]
    /\ UNCHANGED <<store, max_entries, history, file, nextId, lastOp, saveSeq,
                   streak, dirty, everFailed, pc, loc, h0, view, app>>

EngineNext == TranscribeCall

EngineSpec == EngineInit /\ [][EngineNext]_vars

(* C27: Engine input check, as stated: transcribe_files fails with the
   no-usable-input error exactly when none of the given paths has a supported
   extension; otherwise it returns the per-file texts of the supported files,
   in input order, joined by a blank line. *)
UsableAt(paths) == {i \in 1..Len(paths) : paths[i] \in UsableNames}

RECURSIVE Expected(_, _)
Expected(paths, i) ==
    IF i > Len(paths) THEN <<>>
    ELSE IF i \notin UsableAt(paths) THEN Expected(paths, i + 1)
    ELSE IF \A j \in UsableAt(paths) : j <= i THEN Strip(Heard(paths[i]))
    ELSE Strip(Heard(paths[i])) \o <<"\n", "\n">> \o Expected(paths, i + 1)

C27_FailsExactlyWhenNoneUsable ==
    probe.done =>
        /\ probe.result.raised = "ValueError" <=> UsableAt(probe.file_paths) = {}
        /\ UsableAt(probe.file_paths) # {} =>
              probe.result = [raised |-> "none", text |-> Expected(probe.file_paths, 1)]

(* C27 amended: for an empty list of paths transcribe_files returns the empty
   text; for a list that is not empty it fails exactly when none of the paths
   has a supported extension, and otherwise returns the joined texts. *)
C27_EngineInputCheck ==
    probe.done =>
        /\ probe.file_paths = <<>> => probe.result = [raised |-> "none", text |-> <<>>]
        /\ probe.result.raised = "ValueError" <=>
              (probe.file_paths # <<>> /\ UsableAt(probe.file_paths) = {})
        /\ probe.result.raised \in {"none", "ValueError"}
        /\ UsableAt(probe.file_paths) # {} =>
              probe.result = [raised |-> "none", text |-> Expected(probe.file_paths, 1)]

(* Three paths, the second unusable: the texts of the first and the third,
   a blank line between them *)
C27_Witness ==
    /\ probe.done
    /\ probe.file_paths = << <<"b", ".", "M", "P", "3">>, <<".", "o", "p", "u", "s">>,
                             <<"a", ".", "o", "p", "u", "s">> >>
    /\ probe.result = [raised |-> "none",
                       text |-> <<"b", " ", "b", "\n", "\n", "a", " ", "a">>]



(* C29: size and truthiness.  len(store) returns the number of records held,
   bool(store) is false exactly when that number is 0: false right after
   construction on a missing file and after clear, true after a save with
   max_entries >= 1. *)
C29_SizeAndTruthiness ==
    [][/\ lastOp'.op = "len" => lastOp'.ret = PyInt(Len(history'))
       /\ lastOp'.op = "bool" =>
             /\ lastOp'.ret = [t |-> "bool", v |-> Len(history') # 0]
             /\ lastOp.op \in {"init", "clear"} => lastOp'.ret.v = FALSE
             /\ lastOp.op = "save" /\ max_entries >= 1 => lastOp'.ret.v = TRUE]_vars

(* bool(store) is false again once the records saved have been removed *)
C29_Witness ==
    /\ lastOp.op = "bool"
    /\ lastOp.ret.v = FALSE
    /\ nextId > 1
    /\ max_entries >= 1

(* The worker is past the first statement of save and has not returned *)
InsideSave == {"trim_test", "trim_slice", "trim_store", "snapshot", "open", "write"}

(* C30: reads during a save see a bounded list.  A get_all() or len() that
   the main thread runs while the worker is inside save, on a store that held
   at most max_entries records before the save, observes at most max_entries
   records, and the list (or size) it observes is the one before the save or
   the one after it. *)
C30_ReadsDuringSave ==
    (/\ pc["main"] = "done"
     /\ loc["main"].op \in {"get_all", "len"}
     /\ loc["main"].at \in InsideSave
     /\ Len(h0) <= max_entries) =>
        LET after == Trim(Insert(h0, loc["worker"].record), max_entries)
        IN  IF loc["main"].op = "get_all"
            THEN /\ Len(loc["main"].data) <= max_entries
                 /\ loc["main"].data \in {h0, after}
            ELSE /\ loc["main"].idx <= max_entries
                 /\ loc["main"].idx \in {Len(h0), Len(after)}

(* C32: construction leaves the storage file untouched.  Constructing a store
   changes nothing of the file, be it missing, corrupt or well formed; the
   file changes only in a save, a delete that found its record or a clear,
   and such a call whose write succeeds leaves the list in memory in it. *)
C32_ConstructionReadsOnly ==
    [][/\ lastOp'.op = "init" => file' = file
       /\ file' # file =>
             /\ \/ lastOp'.op \in {"save", "clear"}
                \/ lastOp'.op = "delete" /\ lastOp'.found
             /\ lastOp'.disk = "ok" => file' = FileJson(Serialize(history'))]_vars

(* A store constructed on the text a failed write left: the list is empty and
   the text is still on disk *)
C32_Witness ==
    /\ lastOp.op = "init" /\ store = "ok"
    /\ file = FileText
    /\ history = <<>>
    /\ nextId > 1
------------------------------------------------------------------------------
(* TranscriptionRecord.time_ago *)

MaxMultiple == 3

(* The seconds of a minute, an hour and a day in time_ago *)
Minute == 60

Hour == 3600

Day == 86400

(* Clock readings at which records are created *)
Stamps == {0, 7}

(* TranscriptionRecord.datetime: datetime.fromisoformat(self.timestamp) *)
FromIsoFormat(s) == CHOOSE t \in Stamps : IsoFormat(t) = s

(* f"{n}m ago", f"{n}h ago", f"{n}d ago" *)
Ago(n, unit) == <<ToString(n), unit, " ", "a", "g", "o">>

JustNow == <<"j", "u", "s", "t", " ", "n", "o", "w">>

(* Fault: the quotient is rounded to the nearest unit *)
TimeAgoRounded(record, now) ==
    LET seconds == now - FromIsoFormat(record.timestamp.v)
    IN  IF seconds < Minute THEN JustNow
        ELSE IF seconds < Hour THEN Ago((seconds + Minute \div 2) \div Minute, "m")
        ELSE IF seconds < Day THEN Ago((seconds + Hour \div 2) \div Hour, "h")
        ELSE Ago((seconds + Day \div 2) \div Day, "d")

(* time_ago(self), with now the reading of datetime.now() in the call *)
time_ago(record, now) ==
    LET seconds == now - FromIsoFormat(record.timestamp.v)
    IN  IF seconds < Minute THEN JustNow
        ELSE IF seconds < Hour THEN Ago(seconds \div Minute, "m")
        ELSE IF seconds < Day THEN Ago(seconds \div Hour, "h")
        ELSE Ago(seconds \div Day, "d")

(* Ages in whole seconds: the examples of the specification, and every
   multiple of a unit with the second before and after it *)
Ages ==
    {0, 30, 5 * Minute}
      \cup {k * u + e : k \in 1..MaxMultiple, u \in {Minute, Hour, Day}, e \in {-1, 0, 1}}

AgoInit ==
    /\ Started({FileMissing})
    /\ max_entries = 1
    /\ \E t \in Stamps, s \in Ages :
          probe = [record |-> Create(ShortText, << <<"a">> >>, <<"b", "a", "s", "e">>,
                                     Uuid4(1), t),
                   clock |-> t + s, readAt |-> 0, ret |-> <<>>, done |-> FALSE]

(* record.time_ago() *)
TimeAgoCall ==
    /\ probe' = [probe EXCEPT !.ret = time_ago(probe.record, probe.clock),
                              !.readAt = probe.clock, !.done = TRUE]
    /\ UNCHANGED <<store, max_entries, history, file, nextId, lastOp, saveSeq,
                   streak, dirty, everFailed, pc, loc, h0, view, app>>

(* Time passes between two calls *)
Tick(s) ==
    /\ FromIsoFormat(probe.record.timestamp.v) + s > probe.clock
    /\ probe' = [probe EXCEPT !.clock = FromIsoFormat(probe.record.timestamp.v) + s]
    /\ UNCHANGED <<store, max_entries, history, file, nextId, lastOp, saveSeq,
                   streak, dirty, everFailed, pc, loc, h0, view, app>>

AgoNext ==
    \/ TimeAgoCall
    \/ \E s \in Ages : Tick(s)

AgoSpec == AgoInit /\ [][AgoNext]_vars

(* C28: time_ago buckets.  For a record created s whole seconds before the
   clock reading of the call, time_ago returns "just now" if s < 60, the
   whole minutes if s < 3600, the whole hours if s < 86400 and the whole days
   otherwise, each call from the clock reading of that call. *)
C28_TimeAgoBuckets ==
    [][probe'.done =>
          LET s == probe.clock - FromIsoFormat(probe.record.timestamp.v)
              r == probe'.ret
          IN  \/ probe'.ret = probe.ret /\ probe'.readAt = probe.readAt
              \/ /\ probe'.readAt = probe.clock
                 /\ probe'.record = probe.record
                 /\ \/ s < 60 /\ r = JustNow
                    \/ /\ 60 <= s /\ s < 3600
                       /\ \E n \in 1..59 : r = Ago(n, "m") /\ 60 * n <= s /\ s < 60 * (n + 1)
                    \/ /\ 3600 <= s /\ s < 86400
                       /\ \E n \in 1..23 : r = Ago(n, "h") /\ 3600 * n <= s /\ s < 3600 * (n + 1)
                    \/ /\ 86400 <= s
                       /\ \E n \in 1..(s \div 86400) :
                             r = Ago(n, "d") /\ 86400 * n <= s /\ s < 86400 * (n + 1)]_vars

(* A call made exactly two days after the record was created says "2d ago" *)
C28_Witness ==
    /\ probe.done
    /\ probe.record.timestamp.v = IsoFormat(7)
    /\ probe.readAt = 7 + 2 * Day /\ probe.clock = probe.readAt
    /\ probe.ret = <<"2", "d", " ", "a", "g", "o">>


------------------------------------------------------------------------------
(* Two processes of the application, each with its own HistoryManager on the
   one storage location; all writes succeed *)

Procs == {"first", "second"}

procFrame == <<store, max_entries, history, lastOp, streak, dirty, everFailed,
               pc, loc, h0, view, app>>

(* lists: the _history of each process; live: the ids of the records a save
   wrote that no call has since deleted, cleared or trimmed off; last: the
   call made last *)
TwoInit ==
    /\ Started({FileMissing, FileJson(JArray(<<OldJson(1)>>))})
    /\ probe = [lists |-> [p \in Procs |-> Load(file).history], live |-> {},
                last |-> [proc |-> "none", op |-> "init"]]

(* HistoryManager.__init__ in a process that starts again *)
ProcConstruct(p) ==
    /\ Load(file).exc = "none"
    /\ probe' = [probe EXCEPT !.lists[p] = Load(file).history,
                              !.last = [proc |-> p, op |-> "init"]]
    /\ UNCHANGED <<file, nextId, saveSeq>>
    /\ UNCHANGED procFrame

(* HistoryManager.save in process p *)
ProcSave(p, in, now) ==
    LET record == Create(in.text, in.file_names, in.model, Uuid4(nextId), now)
        kept   == Trim(Insert(probe.lists[p], record), max_entries)
        gone   == {probe.lists[p][i].id : i \in 1..Len(probe.lists[p])}
                     \ {kept[i].id : i \in 1..Len(kept)}
    IN  /\ nextId <= MaxSaves
        /\ file' = Persist(kept, file, "ok")
        /\ nextId' = nextId + 1
        /\ saveSeq' = Append(saveSeq, record.id)
        /\ probe' = [probe EXCEPT !.lists[p] = kept,
                                  !.live = (probe.live \ gone) \cup
                                              (IF Len(kept) > 0 THEN {record.id} ELSE {}),
                                  !.last = [proc |-> p, op |-> "save"]]
        /\ UNCHANGED procFrame

(* HistoryManager.delete in process p *)
ProcDelete(p, rid) ==
    LET i == IndexOf(probe.lists[p], rid)
    IN  /\ IF i = 0
           THEN /\ probe' = [probe EXCEPT !.last = [proc |-> p, op |-> "delete"]]
                /\ UNCHANGED file
           ELSE /\ file' = Persist(DeleteAt(probe.lists[p], i), file, "ok")
                /\ probe' = [probe EXCEPT !.lists[p] = DeleteAt(probe.lists[p], i),
                                          !.live = probe.live \ {rid},
                                          !.last = [proc |-> p, op |-> "delete"]]
        /\ UNCHANGED <<nextId, saveSeq>>
        /\ UNCHANGED procFrame

(* HistoryManager.clear in process p *)
ProcClear(p) ==
    /\ file' = Persist(<<>>, file, "ok")
    /\ probe' = [probe EXCEPT !.lists[p] = <<>>, !.live = {},
                              !.last = [proc |-> p, op |-> "clear"]]
    /\ UNCHANGED <<nextId, saveSeq>>
    /\ UNCHANGED procFrame

TwoNext ==
    \E p \in Procs :
        \/ ProcConstruct(p)
        \/ \E in \in ReadInputs, now \in Times : ProcSave(p, in, now)
        \/ \E rid \in SavedIds : ProcDelete(p, rid)
        \/ ProcClear(p)

TwoSpec == TwoInit /\ [][TwoNext]_vars

(* The ids of the records the storage file holds *)
OnDisk == {Load(file).history[i].id : i \in 1..Len(Load(file).history)}

(* C31: two stores on one location do not lose each other's records.  A record
   that a save of either process wrote, and that no call has deleted, cleared
   or trimmed off since, is in the storage file after every save, delete and
   clear of the other process. *)
C31_NoLostRecords ==
    probe.last.op \in {"save", "delete", "clear"} => probe.live \subseteq OnDisk


------------------------------------------------------------------------------
(* The busy flag: select_files and paste_from_clipboard on the main thread,
   _transcribe_files on the worker threads they start *)

UiActions == {"select_files", "paste_from_clipboard"}

(* How the try block of _transcribe_files ends *)
RunOutcomes == {"done", "engine_raises", "save_raises", "copy_fails", "copy_raises"}

(* A thread between thread.start() and the end of _transcribe_files *)
Alive == {"started", "try", "finally"}

AliveRuns == {w \in Runs : app.run[w] \in Alive}

busyFrame == <<store, max_entries, history, file, nextId, lastOp, saveSeq, streak,
               dirty, everFailed, pc, loc, h0, view, probe>>

BusyInit == Started({FileMissing}) /\ max_entries = MaxCap /\ probe = NoProbe

(* select_files / paste_from_clipboard: if self._is_transcribing: alert, return *)
HandlerCheck(kind) ==
    /\ app.handler = "idle"
    /\ \E w \in Runs : app.run[w] = "unstarted"
    /\ app.transcribing => app.alerts < MaxAlerts
    /\ app' = [app EXCEPT
                 !.check = [running |-> Cardinality(AliveRuns), refused |-> app.transcribing],
                 !.alerts = IF app.transcribing THEN app.alerts + 1 ELSE app.alerts,
                 !.handler = IF app.transcribing THEN "idle" ELSE kind]
    /\ UNCHANGED busyFrame

(* The files are chosen: threading.Thread(target=self._transcribe_files).start() *)
HandlerStart ==
    /\ app.handler \in UiActions
    /\ LET w == CHOOSE v \in Runs : app.run[v] = "unstarted" /\ \A u \in 1..(v - 1) : app.run[u] # "unstarted"
       IN  app' = [app EXCEPT !.run[w] = "started", !.handler = "idle"]
    /\ UNCHANGED busyFrame

(* The panel is cancelled, the clipboard holds no audio file, or the handler
   raises: no thread is started *)
HandlerNoFiles ==
    /\ app.handler \in UiActions
    /\ app' = [app EXCEPT !.handler = "idle"]
    /\ UNCHANGED busyFrame

(* _transcribe_files: self._is_transcribing = True *)
WorkerSetsBusy(w) ==
    /\ app.run[w] = "started"
    /\ app' = [app EXCEPT !.transcribing = TRUE, !.run[w] = "try"]
    /\ UNCHANGED busyFrame

(* _transcribe_files: the try block with its except clause *)
WorkerTry(w, outcome) ==
    /\ app.run[w] = "try"
    /\ app' = [app EXCEPT !.run[w] = "finally", !.outcome[w] = outcome]
    /\ UNCHANGED busyFrame

(* _transcribe_files, finally: self._is_transcribing = False *)
WorkerClearsBusy(w) ==
    /\ app.run[w] = "finally"
    /\ app' = [app EXCEPT !.transcribing = FALSE, !.run[w] = "ended"]
    /\ UNCHANGED busyFrame

BusyNext ==
    \/ \E kind \in UiActions : HandlerCheck(kind)
    \/ HandlerStart
    \/ HandlerNoFiles
    \/ \E w \in Runs : WorkerSetsBusy(w)
    \/ \E w \in Runs, outcome \in RunOutcomes : WorkerTry(w, outcome)
    \/ \E w \in Runs : WorkerClearsBusy(w)

BusySpec == BusyInit /\ [][BusyNext]_vars

(* C33: at most one transcription at a time.  At most one _transcribe_files
   thread is between its start and its end at any moment, and a handler that
   tests the flag while such a thread exists shows the alert and starts no
   thread. *)
C33_OneTranscription ==
    /\ Cardinality(AliveRuns) <= 1
    /\ app.check.running > 0 => app.check.refused

(* C34: the busy flag follows the worker.  _is_transcribing is true whenever
   a worker is past its first statement and has not reached the end of its
   finally clause, and false when every run has ended, however its try block
   ended. *)
C34_BusyFollowsWorker ==
    /\ (\E w \in Runs : app.run[w] \in {"try", "finally"}) => app.transcribing
    /\ (AliveRuns = {} /\ app.handler = "idle") => ~app.transcribing


------------------------------------------------------------------------------
(* The slots between the threads and the timer callback: the worker saves,
   requests a refresh and posts a notification; the main thread clears the
   history or posts an error from a handler; _process_pending_updates runs on
   the main thread between handlers *)

MaxPosts == 2

MaxClears == 1

(* Fault: the menu is not rebuilt after the request is cleared *)
SkipsRebuild == "note_test"

(* if self._pending_history_refresh: self._pending_history_refresh = False,
   then self._history_menu.clear(); self._populate_history_menu() *)
AfterRefreshClear == "rebuild"

(* The saves and clears whose change of the list is complete *)
Completed ==
    (nextId - 1) + app.clears
       - (IF pc["worker"] \in {"trim_test", "trim_slice", "trim_store"} THEN 1 ELSE 0)

(* The tuple (ntype, msg), numbered in the order of posting *)
Note(ntype) == [ntype |-> ntype, no |-> app.posted + 1]

timerFrame == <<store, max_entries, lastOp, streak, dirty, everFailed, h0, view, probe>>

TimerInit == Started({FileMissing}) /\ max_entries = 1 /\ probe = NoProbe

(* _transcribe_files up to the call of save, or to the except clause *)
TimerRunStart(outcome) ==
    /\ pc["worker"] \in {"idle", "finished"}
    /\ nextId <= MaxSaves
    /\ app.posted < MaxPosts
    /\ IF outcome = "returned"
       THEN /\ loc' = [loc EXCEPT !["worker"] =
                         [NoLocals["worker"] EXCEPT !.op = "save",
                             !.record = Create(ShortText, RunNames, app.model, Uuid4(nextId), 1)]]
            /\ Goto("worker", "call")
       ELSE /\ loc' = [loc EXCEPT !["worker"] = NoLocals["worker"]]
            /\ Goto("worker", "except")
    /\ UNCHANGED <<history, file, nextId, saveSeq, app>>
    /\ UNCHANGED timerFrame

(* _transcribe_files: self._request_history_refresh() after the save *)
WorkerRequests ==
    /\ pc["worker"] = "done"
    /\ app' = [app EXCEPT !.pending_history_refresh = TRUE, !.reqAt = Completed]
    /\ Goto("worker", "copy")
    /\ UNCHANGED <<history, file, nextId, saveSeq, loc>>
    /\ UNCHANGED timerFrame

(* _transcribe_files: self._send_notification("success", file_count) or
   ("error", ...) after the copy, ("error", str(e)) in the except clause *)
WorkerPosts(ntype) ==
    /\ pc["worker"] \in {"copy", "except"}
    /\ pc["worker"] = "except" => ntype = "error"
    /\ app' = [app EXCEPT !.pending_notification = Note(ntype), !.posted = app.posted + 1]
    /\ Goto("worker", "finished")
    /\ UNCHANGED <<history, file, nextId, saveSeq, loc>>
    /\ UNCHANGED timerFrame

(* _clear_history: self.history_manager.clear() *)
ClearHistoryCall ==
    /\ app.handler = "idle" /\ app.timer = "idle"
    /\ app.clears < MaxClears
    /\ history' = <<>>
    /\ file' = Persist(<<>>, file, "ok")
    /\ app' = [app EXCEPT !.clears = app.clears + 1, !.handler = "clear"]
    /\ UNCHANGED <<nextId, saveSeq, pc, loc>>
    /\ UNCHANGED timerFrame

(* _clear_history: self._request_history_refresh() *)
ClearHistoryRequests ==
    /\ app.handler = "clear"
    /\ app' = [app EXCEPT !.pending_history_refresh = TRUE, !.reqAt = Completed,
                          !.handler = "idle"]
    /\ UNCHANGED <<history, file, nextId, saveSeq, pc, loc>>
    /\ UNCHANGED timerFrame

(* select_files, except Exception as e: self._send_notification("error", str(e));
   the history callback when the copy fails *)
HandlerPosts ==
    /\ app.handler = "idle" /\ app.timer = "idle"
    /\ app.posted < MaxPosts
    /\ app' = [app EXCEPT !.pending_notification = Note("error"), !.posted = app.posted + 1]
    /\ UNCHANGED <<history, file, nextId, saveSeq, pc, loc>>
    /\ UNCHANGED timerFrame

(* rumps.Timer calls _process_pending_updates on the main thread *)
TimerFires ==
    /\ app.timer = "idle" /\ app.handler = "idle"
    /\ app' = [app EXCEPT !.timer = "refresh_test"]
    /\ UNCHANGED <<history, file, nextId, saveSeq, pc, loc>>
    /\ UNCHANGED timerFrame

(* if self._pending_history_refresh *)
RefreshTest ==
    /\ app.timer = "refresh_test"
    /\ app' = [app EXCEPT !.timer = IF app.pending_history_refresh
                                    THEN "refresh_clear" ELSE "note_test"]
    /\ UNCHANGED <<history, file, nextId, saveSeq, pc, loc>>
    /\ UNCHANGED timerFrame

(* self._pending_history_refresh = False *)
RefreshClear ==
    /\ app.timer = "refresh_clear"
    /\ app' = [app EXCEPT !.pending_history_refresh = FALSE, !.timer = AfterRefreshClear]
    /\ UNCHANGED <<history, file, nextId, saveSeq, pc, loc>>
    /\ UNCHANGED timerFrame

(* self._history_menu.clear(); self._populate_history_menu(): one item for
   each record of self.history_manager.get_all() *)
Rebuild ==
    /\ app.timer = "rebuild"
    /\ app' = [app EXCEPT !.menu = Ids(GetAll(history)), !.menuAt = Completed,
                          !.timer = "note_test"]
    /\ UNCHANGED <<history, file, nextId, saveSeq, pc, loc>>
    /\ UNCHANGED timerFrame

(* if self._pending_notification is not None *)
NoteTest ==
    /\ app.timer = "note_test"
    /\ app' = [app EXCEPT !.timer = IF app.pending_notification # PyNone
                                    THEN "note_read" ELSE "idle"]
    /\ UNCHANGED <<history, file, nextId, saveSeq, pc, loc>>
    /\ UNCHANGED timerFrame

(* ntype, msg = self._pending_notification *)
NoteRead ==
    /\ app.timer = "note_read"
    /\ app' = [app EXCEPT !.note = app.pending_notification, !.timer = "note_clear"]
    /\ UNCHANGED <<history, file, nextId, saveSeq, pc, loc>>
    /\ UNCHANGED timerFrame

(* self._pending_notification = None *)
NoteClear ==
    /\ app.timer = "note_clear"
    /\ app' = [app EXCEPT !.pending_notification = PyNone, !.timer = "notify"]
    /\ UNCHANGED <<history, file, nextId, saveSeq, pc, loc>>
    /\ UNCHANGED timerFrame

(* notify_success(msg) or notify_error(msg) *)
Notify ==
    /\ app.timer = "notify"
    /\ app' = [app EXCEPT !.shown = app.shown + 1, !.note = PyNone, !.timer = "idle"]
    /\ UNCHANGED <<history, file, nextId, saveSeq, pc, loc>>
    /\ UNCHANGED timerFrame

WorkerStep ==
    \/ \E outcome \in {"returned", "raised"} : TimerRunStart(outcome)
    \/ SaveInsert("worker")
    \/ TrimTest("worker")
    \/ TrimSlice("worker")
    \/ TrimStore("worker")
    \/ Snapshot("worker")
    \/ Open("worker")
    \/ Write("worker")
    \/ WorkerRequests
    \/ \E ntype \in {"success", "error"} : WorkerPosts(ntype)

HandlerStep ==
    \/ ClearHistoryCall
    \/ ClearHistoryRequests
    \/ HandlerPosts

TimerStep ==
    \/ TimerFires
    \/ RefreshTest
    \/ RefreshClear
    \/ Rebuild
    \/ NoteTest
    \/ NoteRead
    \/ NoteClear
    \/ Notify

TimerNext == WorkerStep \/ HandlerStep \/ TimerStep

TimerSpec == TimerInit /\ [][TimerNext]_vars

(* The numbers of the notifications in the slot and in the hands of the timer
   callback *)
HeldNotes ==
    {n \in 1..app.posted :
        \/ app.pending_notification # PyNone /\ app.pending_notification.no = n
        \/ app.note # PyNone /\ app.note.no = n}

(* C35: no notification is lost.  Every notification posted has been shown
   once, or is still in the slot or in the hands of the timer callback, to be
   shown by it. *)
C35_NoNotificationLost == app.posted = app.shown + Cardinality(HeldNotes)

(* The main thread keeps running its handlers and the timer callback *)
TimerLive == TimerSpec /\ WF_vars(TimerStep) /\ WF_vars(HandlerStep)

(* No save is between its insert and its refresh request, no clear between
   its assignment and its request, and the timer callback is not running *)
Settled ==
    /\ app.timer = "idle" /\ app.handler = "idle"
    /\ ~app.pending_history_refresh
    /\ pc["worker"] \in {"idle", "call", "copy", "except", "finished"}

(* C36: the history menu catches up.  A refresh request is cleared only by a
   timer run that then rebuilds the menu from a get_all() taken after the
   mutation that made the request; when nothing is in progress the menu lists
   the records held; and, the timer callback running on, every request leads
   to such a rebuild. *)
C36_MenuCatchesUp ==
    /\ []((app.timer = "idle" /\ ~app.pending_history_refresh) => app.menuAt >= app.reqAt)
    /\ [](Settled => app.menu = Ids(history))
    /\ \A n \in 1..(MaxSaves + MaxClears) : (app.reqAt >= n) ~> (app.menuAt >= n)

(* Two saves, a clear before them, and a rebuild after the last: the menu
   lists the one record kept *)
C36_Witness ==
    /\ Settled
    /\ app.menuAt = 3 /\ app.clears = 1
    /\ app.menu = <<PyStr(Uuid4(2))>>


------------------------------------------------------------------------------
(* DropVox processes and the lock file ~/.dropvox/app.lock *)

MaxProcs == 3

Pids == 1..MaxProcs

(* str(os.getpid()) *)
PidText(p) == <<ToString(p)>>

(* Fault: the lock is granted whoever holds it *)
TakesLock(holder, p) == p

(* fcntl.flock(fd, LOCK_EX | LOCK_NB): the holder after the call; the call
   raises BlockingIOError when another open file description holds the lock *)
Flock(holder, p) == IF holder = 0 THEN p ELSE holder

(* A process that has the lock file open and has not exited *)
PastLock == {"locked", "main", "running"}

lockFrame == <<store, max_entries, history, file, nextId, lastOp, saveSeq, streak,
               dirty, everFailed, pc, loc, h0, view, app>>

(* at[p]: where process p stands; holder: the process whose descriptor holds
   the lock, 0 if none; content: the text of the lock file; found[p]: the
   holder that p's flock call met; ran: the processes that reached app.run() *)
LockInit ==
    /\ Started({FileMissing}) /\ max_entries = MaxCap
    /\ probe = [at |-> [p \in Pids |-> "new"], holder |-> 0, content |-> <<>>,
                found |-> [p \in Pids |-> 0], ran |-> {}]

(* acquire_lock: mkdir, _lock_fd = open(LOCK_FILE, 'w') *)
OpenLockFile(p) ==
    /\ probe.at[p] = "new"
    /\ probe' = [probe EXCEPT !.at[p] = "opened", !.content = <<>>]
    /\ UNCHANGED <<file, nextId, saveSeq>>
    /\ UNCHANGED lockFrame

(* acquire_lock: flock, or sys.exit(0) on BlockingIOError *)
TryLock(p) ==
    /\ probe.at[p] = "opened"
    /\ probe' = [probe EXCEPT !.holder = Flock(probe.holder, p),
                              !.found[p] = probe.holder,
                              !.at[p] = IF Flock(probe.holder, p) = p THEN "locked" ELSE "refused"]
    /\ UNCHANGED <<file, nextId, saveSeq>>
    /\ UNCHANGED lockFrame

(* acquire_lock: _lock_fd.write(str(os.getpid())); flush *)
WritePid(p) ==
    /\ probe.at[p] = "locked"
    /\ probe' = [probe EXCEPT !.content = PidText(p), !.at[p] = "main"]
    /\ UNCHANGED <<file, nextId, saveSeq>>
    /\ UNCHANGED lockFrame

(* main: seek(0), truncate, write the pid again; DropVoxApp().run() *)
Main(p) ==
    /\ probe.at[p] = "main"
    /\ probe' = [probe EXCEPT !.content = PidText(p), !.at[p] = "running",
                              !.ran = probe.ran \cup {p}]
    /\ UNCHANGED <<file, nextId, saveSeq>>
    /\ UNCHANGED lockFrame

(* The process ends, by Quit or otherwise: its descriptors are closed and the
   lock it holds is released *)
ProcessEnds(p) ==
    /\ probe.at[p] \in PastLock
    /\ probe' = [probe EXCEPT !.at[p] = "exited",
                              !.holder = IF probe.holder = p THEN 0 ELSE probe.holder]
    /\ UNCHANGED <<file, nextId, saveSeq>>
    /\ UNCHANGED lockFrame

LockNext ==
    \E p \in Pids :
        \/ OpenLockFile(p)
        \/ TryLock(p)
        \/ WritePid(p)
        \/ Main(p)
        \/ ProcessEnds(p)

LockSpec == LockInit /\ [][LockNext]_vars

(* C37: single instance.  At most one process is past the lock at a time and
   only such a process runs the app; it holds the lock from its flock call to
   its end; a process whose flock call met a holder has exited without
   running the app. *)
C37_SingleInstance ==
    /\ Cardinality({p \in Pids : probe.at[p] \in PastLock}) <= 1
    /\ \A p \in Pids :
          /\ probe.at[p] \in PastLock <=> probe.holder = p
          /\ probe.at[p] = "running" => p \in probe.ran
          /\ p \in probe.ran => probe.found[p] = 0 /\ probe.at[p] \in {"running", "exited"}
          /\ probe.at[p] = "refused" <=> probe.found[p] # 0
          /\ probe.found[p] # 0 => p \notin probe.ran

(* Process 2 runs the app after process 1 has ended; process 3 met the lock
   of process 2 and has exited *)
C37_Witness ==
    /\ probe.at = <<"exited", "running", "refused">>
    /\ probe.ran = {1, 2}
    /\ probe.found[3] = 2
    /\ probe.holder = 2


------------------------------------------------------------------------------
(* transcribe_files, file by file, with its progress callback *)

(* A path with a directory in front of the file name *)
DirPath == <<"d", "/", "a", ".", "o", "p", "u", "s">>

(* PurePath.name: what follows the last separator *)
Name(path) ==
    LET seps == {i \in 1..Len(path) : path[i] = "/"}
        last == IF seps = {} THEN 0 ELSE CHOOSE i \in seps : \A j \in seps : j <= i
    IN  SubSeq(path, last + 1, Len(path))

ProgressPaths ==
    UNION {[1..n -> UsableNames \cup UnusableNames \cup {DirPath}] : n \in 0..MaxFiles}

(* on_progress(current, total, filename) *)
ProgressEvent(current, total, filename) ==
    [kind |-> "on_progress", current |-> current, total |-> total, filename |-> filename]

(* model_instance.transcribe(str(audio_file), language=language) *)
TranscribeEvent(audio_file) == [kind |-> "transcribe", audio_file |-> audio_file]

progressFrame == <<store, max_entries, history, file, nextId, lastOp, saveSeq, streak,
                   dirty, everFailed, pc, loc, h0, view, app>>

(* on_progress: whether the caller gave a callback; at: where the call
   stands; i: the loop counter; events: the callbacks and the transcriptions
   made so far, in order *)
ProgressInit ==
    /\ Started({FileMissing}) /\ max_entries = MaxCap
    /\ \E p \in ProgressPaths, cb \in BOOLEAN :
          probe = [file_paths |-> p, on_progress |-> cb, at |-> "call",
                   valid_files |-> <<>>, i |-> 0, events |-> <<>>,
                   result |-> [raised |-> "none", text |-> <<>>]]

(* transcribe_files up to the loop: the empty list, the filter, the error *)
CallBegins ==
    /\ probe.at = "call"
    /\ LET valid_files == ValidFiles(probe.file_paths)
       IN  probe' = [probe EXCEPT
                       !.valid_files = valid_files,
                       !.i = IF valid_files = <<>> THEN 0 ELSE 1,
                       !.at = IF probe.file_paths = <<>> THEN "returned"
                              ELSE IF valid_files = <<>> THEN "raised"
                              ELSE "on_progress",
                       !.result = IF probe.file_paths # <<>> /\ valid_files = <<>>
                                  THEN [raised |-> "ValueError", text |-> <<>>]
                                  ELSE probe.result]
    /\ UNCHANGED <<file, nextId, saveSeq>>
    /\ UNCHANGED progressFrame

(* if on_progress: on_progress(i, total, audio_file.name) *)
ProgressCall ==
    /\ probe.at = "on_progress"
    /\ probe' = [probe EXCEPT
                   !.events = IF probe.on_progress
                              THEN Append(probe.events,
                                          ProgressEvent(probe.i, Len(probe.valid_files),
                                                        Name(probe.valid_files[probe.i])))
                              ELSE probe.events,
                   !.at = "transcribe"]
    /\ UNCHANGED <<file, nextId, saveSeq>>
    /\ UNCHANGED progressFrame

(* result = model_instance.transcribe(...); the next file, or the return
   after the last one; the engine may raise *)
TranscribeFile(outcome) ==
    /\ probe.at = "transcribe"
    /\ IF outcome = "raises"
       THEN probe' = [probe EXCEPT !.at = "raised",
                                   !.result = [raised |-> "Exception", text |-> <<>>]]
       ELSE probe' = [probe EXCEPT
                        !.events = Append(probe.events, TranscribeEvent(probe.valid_files[probe.i])),
                        !.i = IF probe.i = Len(probe.valid_files) THEN probe.i ELSE probe.i + 1,
                        !.at = IF probe.i = Len(probe.valid_files) THEN "returned" ELSE "on_progress",
                        !.result = IF probe.i = Len(probe.valid_files)
                                   THEN transcribe_files(probe.file_paths) ELSE probe.result]
    /\ UNCHANGED <<file, nextId, saveSeq>>
    /\ UNCHANGED progressFrame

ProgressNext ==
    \/ CallBegins
    \/ ProgressCall
    \/ \E outcome \in {"returns", "raises"} : TranscribeFile(outcome)

ProgressSpec == ProgressInit /\ [][ProgressNext]_vars

(* The positions of the supported files in the list given, and the n-th *)
SupportedAt(paths) == {i \in 1..Len(paths) : paths[i] \in UsableNames \cup {DirPath}}

NthSupported(paths, n) ==
    paths[CHOOSE i \in SupportedAt(paths) : Cardinality({j \in SupportedAt(paths) : j <= i}) = n]

FileNameOf(path) == IF path = DirPath THEN <<"a", ".", "o", "p", "u", "s">> ELSE path

(* C38: progress protocol.  With k >= 1 supported files and a callback given,
   what the call does is, in this order, callback (1, k, name of the first
   supported file), transcription of that file, callback (2, k, ...), and so
   on: at any moment a prefix of that sequence, and all of it, k callbacks,
   when the call returns; unsupported files give no callback and are not
   counted in k. *)
C38_ProgressProtocol ==
    LET paths == probe.file_paths
        k     == Cardinality(SupportedAt(paths))
        whole == [j \in 1..(2 * k) |->
                    IF j % 2 = 1
                    THEN [kind |-> "on_progress", current |-> (j + 1) \div 2, total |-> k,
                          filename |-> FileNameOf(NthSupported(paths, (j + 1) \div 2))]
                    ELSE [kind |-> "transcribe", audio_file |-> NthSupported(paths, j \div 2)]]
    IN  probe.on_progress =>
           /\ Len(probe.events) <= 2 * k
           /\ probe.events = SubSeq(whole, 1, Len(probe.events))
           /\ (probe.at = "returned" /\ k >= 1) => probe.events = whole
           /\ probe.at = "transcribe" => Len(probe.events) % 2 = 1
           /\ probe.at = "on_progress" => Len(probe.events) % 2 = 0

(* A call with an unsupported file ahead of two supported ones has returned
   after the callbacks (1, 2, "a.opus") and (2, 2, "b.MP3") *)
C38_Witness ==
    /\ probe.on_progress /\ probe.at = "returned"
    /\ probe.file_paths = << <<"c", ".", "t", "x", "t">>, DirPath, <<"b", ".", "M", "P", "3">> >>
    /\ Len(probe.events) = 4
    /\ probe.events[1] = ProgressEvent(1, 2, <<"a", ".", "o", "p", "u", "s">>)
    /\ probe.events[3] = ProgressEvent(2, 2, <<"b", ".", "M", "P", "3">>)

====
